---- MODULE Spec2Model ----
(***************************************************************************)
(* Model of the mermaid-visualizer pipeline: MermaidParser (text to graph),*)
(* ELKLayoutEngine (graph to positioned graph, with a grid fallback) and   *)
(* the state of the application component that drives them.                *)
(*                                                                         *)
(* JavaScript strings are modelled as sequences of one-character strings,  *)
(* so that trim, split, slice, startsWith and the regular expressions of   *)
(* the parser are computed character by character.  A JavaScript object is *)
(* a record; an absent (undefined) property is an absent record field.     *)
(***************************************************************************)
EXTENDS Integers, Sequences, FiniteSets, TLC

VARIABLES
    mermaidCode,   \* the text handed to MermaidParser.parse
    parseResult,   \* the ParseResult returned by parse
    ppc,           \* "input" before the call to parse, "parsed" after it
    graph,         \* the Graph handed to ELKLayoutEngine.layout
    lpc,           \* where the layout invocation is: "idle", "awaiting", "returned", "delivered"
    elkInput,      \* the engine-schema graph given to elk.layout (<<>> before the call)
    elkPromise,    \* the promise elk.layout returned: pending, fulfilled or rejected
    layoutPromise, \* the promise layout returned: pending, fulfilled or rejected
    elkCalls,      \* how many times elk.layout was invoked
    phases,        \* the states of the invocation's state machine, in the order entered
    observed,      \* what the caller's callbacks were handed, in order
    debouncedCode, \* App: the value useDebounce returns, the text the parse effect parses
    timer,         \* App: the pending call of the debounced setter, <<>> or <<text>>
    layoutedGraph, \* App: the displayed graph
    layoutBounds,  \* App: the displayed bounds
    inflight,      \* App: the layout requests whose promise is pending
    requests,      \* App: how many layout requests were made
    resolved,      \* App: the numbers of the requests whose callback ran, in that order
    lastCall,      \* App: who made the latest layout request, its argument, the graph displayed then
    lastWrite,     \* App: what set the displayed graph last: "init", "drag" or "layout" with its LayoutResult
    events         \* App: how many user events (text change, drag, auto layout) were handled

pvars == <<mermaidCode, parseResult, ppc>>
lvars == <<graph, lpc, elkInput, elkPromise, layoutPromise, elkCalls, phases, observed>>
avars == <<debouncedCode, timer, layoutedGraph, layoutBounds, inflight, requests,
           resolved, lastCall, lastWrite, events>>
vars == <<pvars, lvars, avars>>

Has(r, k) == k \in DOMAIN r

Range(s) == {s[i] : i \in DOMAIN s}

(***************************************************************************)
(* Characters.                                                             *)
(***************************************************************************)
UpperCase == <<"A","B","C","D","E","F","G","H","I","J","K","L","M",
               "N","O","P","Q","R","S","T","U","V","W","X","Y","Z">>
LowerCase == <<"a","b","c","d","e","f","g","h","i","j","k","l","m",
               "n","o","p","q","r","s","t","u","v","w","x","y","z">>
Digits == {"0","1","2","3","4","5","6","7","8","9"}

\* \w of a JavaScript regular expression: [A-Za-z0-9_]
WordChars == Range(UpperCase) \cup Range(LowerCase) \cup Digits \cup {"_"}
IsWord(c) == c \in WordChars

\* \s of a JavaScript regular expression, and the characters String.trim strips
SpaceChars == {" ", "\t", "\n", "\r", "\f"}
IsSpace(c) == c \in SpaceChars

\* the case folding of the /i flag
LowerOf == [c \in Range(UpperCase) |->
               LowerCase[CHOOSE i \in DOMAIN UpperCase : UpperCase[i] = c]]
toLowerChar(c) == IF c \in DOMAIN LowerOf THEN LowerOf[c] ELSE c

toLowerCase(s) == [i \in DOMAIN s |-> toLowerChar(s[i])]

(***************************************************************************)
(* String methods.                                                         *)
(***************************************************************************)
RECURSIVE trimStart(_)
trimStart(s) ==
    IF s # <<>> /\ IsSpace(Head(s)) THEN trimStart(Tail(s)) ELSE s

RECURSIVE trimEnd(_)
trimEnd(s) ==
    IF s # <<>> /\ IsSpace(s[Len(s)]) THEN trimEnd(SubSeq(s, 1, Len(s) - 1)) ELSE s

\* String.prototype.trim
trim(s) == trimEnd(trimStart(s))

\* s.startsWith(p)
startsWith(s, p) == Len(p) <= Len(s) /\ SubSeq(s, 1, Len(p)) = p

\* s.endsWith(p)
endsWith(s, p) == Len(p) <= Len(s) /\ SubSeq(s, Len(s) - Len(p) + 1, Len(s)) = p

\* s.slice(a, -b) for a, b >= 0
slice(s, a, b) == SubSeq(s, a + 1, Len(s) - b)

\* s.split('\n')
RECURSIVE split(_)
split(s) ==
    IF \A i \in DOMAIN s : s[i] # "\n"
    THEN <<s>>
    ELSE LET i == CHOOSE k \in DOMAIN s :
                      s[k] = "\n" /\ \A j \in 1..(k - 1) : s[j] # "\n"
         IN  <<SubSeq(s, 1, i - 1)>> \o split(SubSeq(s, i + 1, Len(s)))

(***************************************************************************)
(* Regular-expression pieces.  A matcher takes the subject s and the       *)
(* 1-based position i of the next character, and gives the position after  *)
(* the match, or 0 when there is no match (0 is passed through).           *)
(*                                                                         *)
(* Every quantifier of the parser's expressions is greedy and is followed  *)
(* by a piece that cannot start with a character the quantifier accepts    *)
(* (or, for the unanchored tails, by nothing), so the backtracking matcher *)
(* of JavaScript finds a match exactly when the longest run does.          *)
(***************************************************************************)
RECURSIVE skipWord(_, _)
skipWord(s, i) == IF i <= Len(s) /\ IsWord(s[i]) THEN skipWord(s, i + 1) ELSE i

RECURSIVE skipSpace(_, _)
skipSpace(s, i) == IF i <= Len(s) /\ IsSpace(s[i]) THEN skipSpace(s, i + 1) ELSE i

RECURSIVE skipNot(_, _, _)
skipNot(s, i, c) == IF i <= Len(s) /\ s[i] # c THEN skipNot(s, i + 1, c) ELSE i

\* \w+
reWord(s, i) ==
    IF i = 0 THEN 0 ELSE LET j == skipWord(s, i) IN IF j > i THEN j ELSE 0

\* \s*
reSpaces(s, i) == IF i = 0 THEN 0 ELSE skipSpace(s, i)

\* \s+
reSpaces1(s, i) ==
    IF i = 0 THEN 0 ELSE LET j == skipSpace(s, i) IN IF j > i THEN j ELSE 0

\* [^c]+
reNot(s, i, c) ==
    IF i = 0 THEN 0 ELSE LET j == skipNot(s, i, c) IN IF j > i THEN j ELSE 0

\* a literal
reLit(s, i, l) ==
    IF i # 0 /\ i + Len(l) - 1 <= Len(s) /\ SubSeq(s, i, i + Len(l) - 1) = l
    THEN i + Len(l)
    ELSE 0

\* (\[[^\]]+\]|\(\([^\)]+\)\)|\{[^}]+\})
reNodeDef(s, i) ==
    LET square == reLit(s, reNot(s, reLit(s, i, <<"[">>), "]"), <<"]">>)
        circle == reLit(s, reNot(s, reLit(s, i, <<"(", "(">>), ")"), <<")", ")">>)
        curly  == reLit(s, reNot(s, reLit(s, i, <<"{">>), "}"), <<"}">>)
    IN  IF square # 0 THEN square ELSE IF circle # 0 THEN circle ELSE curly

\* \|([^\|]+)\|
reLabel(s, i) == reLit(s, reNot(s, reLit(s, i, <<"|">>), "|"), <<"|">>)

ARROW == <<"-", "-", ">">>
DASHED == <<"-", ".", "-", ">">>

NoMatch == [ok |-> FALSE]

\* a literal under the /i flag (l is given in lower case)
reLitI(s, i, l) ==
    IF i # 0 /\ i + Len(l) - 1 <= Len(s)
             /\ toLowerCase(SubSeq(s, i, i + Len(l) - 1)) = l
    THEN i + Len(l)
    ELSE 0

\* (graph|flowchart)
reKeyword(s, i) ==
    LET g == reLitI(s, i, <<"g","r","a","p","h">>)
        f == reLitI(s, i, <<"f","l","o","w","c","h","a","r","t">>)
    IN  IF g # 0 THEN g ELSE f

\* (TB|TD|BT|RL|LR)
reDirection(s, i) ==
    IF \E d \in {<<"t","b">>, <<"t","d">>, <<"b","t">>, <<"r","l">>, <<"l","r">>} :
           reLitI(s, i, d) # 0
    THEN i + 2
    ELSE 0

\* /^(graph|flowchart)\s+(TB|TD|BT|RL|LR)\s*\n?/i : the position after the
\* declaration, 0 when the text does not start with one.  \s* has already
\* taken every line break, so \n? adds nothing.
reDeclaration(s) == reSpaces(s, reDirection(s, reSpaces1(s, reKeyword(s, 1))))

\* code.replace(/^(graph|flowchart)\s+(TB|TD|BT|RL|LR)\s*\n?/i, '').trim()
cleanMermaidCode(code) ==
    LET e == reDeclaration(code)
    IN  trim(IF e = 0 THEN code ELSE SubSeq(code, e, Len(code)))

(***************************************************************************)
(* The five line patterns of parseFlowchartContent.                        *)
(***************************************************************************)
\* /^(\w+)(\[[^\]]+\]|\(\([^\)]+\)\)|\{[^}]+\})$/
nodeMatch(line) ==
    LET e1 == reWord(line, 1)
        e2 == reNodeDef(line, e1)
    IN  IF e2 # 0 /\ e2 = Len(line) + 1
        THEN [ok |-> TRUE, id |-> SubSeq(line, 1, e1 - 1),
              nodeDef |-> SubSeq(line, e1, e2 - 1)]
        ELSE NoMatch

\* /^(\w+)(<nodeDef>)\s*-->\s*(\w+)(<nodeDef>)(?:\|([^\|]+)\|)?/
edgeWithNodesMatch(line) ==
    LET e1 == reWord(line, 1)
        e2 == reNodeDef(line, e1)
        e3 == reLit(line, reSpaces(line, e2), ARROW)
        e4 == reSpaces(line, e3)
        e5 == reWord(line, e4)
        e6 == reNodeDef(line, e5)
        e7 == reLabel(line, e6)
    IN  IF e6 # 0
        THEN [ok |-> TRUE,
              fromId |-> SubSeq(line, 1, e1 - 1), fromNodeDef |-> SubSeq(line, e1, e2 - 1),
              toId |-> SubSeq(line, e4, e5 - 1), toNodeDef |-> SubSeq(line, e5, e6 - 1),
              hasLabel |-> e7 # 0,
              label |-> IF e7 # 0 THEN SubSeq(line, e6 + 1, e7 - 2) ELSE <<>>]
        ELSE NoMatch

\* /^(\w+)\s*-->\s*\|([^\|]+)\|\s*(\w+)(<nodeDef>)$/
edgeWithLabelAndNodeMatch(line) ==
    LET e1 == reWord(line, 1)
        e2 == reSpaces(line, reLit(line, reSpaces(line, e1), ARROW))
        e3 == reLabel(line, e2)
        e4 == reSpaces(line, e3)
        e5 == reWord(line, e4)
        e6 == reNodeDef(line, e5)
    IN  IF e6 # 0 /\ e6 = Len(line) + 1
        THEN [ok |-> TRUE,
              from |-> SubSeq(line, 1, e1 - 1),
              label |-> SubSeq(line, e2 + 1, e3 - 2),
              toId |-> SubSeq(line, e4, e5 - 1), toNodeDef |-> SubSeq(line, e5, e6 - 1)]
        ELSE NoMatch

\* /^(\w+)\s*<arrow>\s*(\w+)(?:\|([^\|]+)\|)?/ for the arrow --> or -.->
plainEdgeMatch(line, arrow) ==
    LET e1 == reWord(line, 1)
        e2 == reSpaces(line, reLit(line, reSpaces(line, e1), arrow))
        e3 == reWord(line, e2)
        e4 == reLabel(line, e3)
    IN  IF e3 # 0
        THEN [ok |-> TRUE,
              from |-> SubSeq(line, 1, e1 - 1), to |-> SubSeq(line, e2, e3 - 1),
              hasLabel |-> e4 # 0,
              label |-> IF e4 # 0 THEN SubSeq(line, e3 + 1, e4 - 2) ELSE <<>>]
        ELSE NoMatch

\* /^(\w+)\s*-->\s*(\w+)(?:\|([^\|]+)\|)?/
edgeWithLabelMatch(line) == plainEdgeMatch(line, ARROW)

\* /^(\w+)\s*-\.\->\s*(\w+)(?:\|([^\|]+)\|)?/
dashedEdgeMatch(line) == plainEdgeMatch(line, DASHED)

(***************************************************************************)
(* MermaidParser.                                                          *)
(***************************************************************************)
\* parseNodeDefinition without label.trim()
parseNodeDefinition_noTrim(id, nodeDef) ==
    IF startsWith(nodeDef, <<"[">>) /\ endsWith(nodeDef, <<"]">>)
    THEN [id |-> id, label |-> slice(nodeDef, 1, 1), shape |-> "rectangle"]
    ELSE IF startsWith(nodeDef, <<"(", "(">>) /\ endsWith(nodeDef, <<")", ")">>)
    THEN [id |-> id, label |-> slice(nodeDef, 2, 2), shape |-> "circle"]
    ELSE IF startsWith(nodeDef, <<"{">>) /\ endsWith(nodeDef, <<"}">>)
    THEN [id |-> id, label |-> slice(nodeDef, 1, 1), shape |-> "diamond"]
    ELSE [id |-> id, label |-> id, shape |-> "rectangle"]

\* parseNodeDefinition(id, nodeDef)
parseNodeDefinition(id, nodeDef) ==
    IF startsWith(nodeDef, <<"[", "[">>) /\ endsWith(nodeDef, <<"]", "]">>)
    THEN [id |-> id, label |-> trim(slice(nodeDef, 2, 2)), shape |-> "rectangle"]
    ELSE IF startsWith(nodeDef, <<"[">>) /\ endsWith(nodeDef, <<"]">>)
    THEN [id |-> id, label |-> trim(slice(nodeDef, 1, 1)), shape |-> "rectangle"]
    ELSE IF startsWith(nodeDef, <<"(", "(">>) /\ endsWith(nodeDef, <<")", ")">>)
    THEN [id |-> id, label |-> trim(slice(nodeDef, 2, 2)), shape |-> "circle"]
    ELSE IF startsWith(nodeDef, <<"{">>) /\ endsWith(nodeDef, <<"}">>)
    THEN [id |-> id, label |-> trim(slice(nodeDef, 1, 1)), shape |-> "diamond"]
    ELSE [id |-> id, label |-> id, shape |-> "rectangle"]

\* The Map<string, GraphNode> of parseFlowchartContent, as the sequence of its
\* values in insertion order (a node's key is its id).
mapHas(nodes, id) == \E i \in DOMAIN nodes : nodes[i].id = id

\* a map whose set deletes an existing key and inserts it again, last
mapSet_reinsert(nodes, id, node) ==
    Append(SelectSeq(nodes, LAMBDA n : n.id # id), node)

\* Map.prototype.set: an existing key keeps its place, a new key goes last
mapSet(nodes, id, node) ==
    IF mapHas(nodes, id)
    THEN [i \in DOMAIN nodes |-> IF nodes[i].id = id THEN node ELSE nodes[i]]
    ELSE Append(nodes, node)

\* the edge patterns without the creation of missing endpoint nodes
ensureNode_skipped(nodes, id) == nodes

\* an endpoint that is set to the default node whether or not the id is known
ensureNode_overwrite(nodes, id) ==
    mapSet(nodes, id, [id |-> id, label |-> id, shape |-> "rectangle"])

\* if (!nodes.has(id)) nodes.set(id, { id, label: id, shape: 'rectangle' })
ensureNode(nodes, id) ==
    IF mapHas(nodes, id)
    THEN nodes
    ELSE mapSet(nodes, id, [id |-> id, label |-> id, shape |-> "rectangle"])

\* the edge literal with every edge given type 'arrow'
makeEdge_arrowOnly(from, to, hasLabel, label, type) ==
    IF hasLabel
    THEN [id |-> from \o <<"-">> \o to, from |-> from, to |-> to,
          label |-> trim(label), type |-> "arrow"]
    ELSE [id |-> from \o <<"-">> \o to, from |-> from, to |-> to, type |-> "arrow"]

\* the edge literal with the label as written, not trimmed
makeEdge_noTrim(from, to, hasLabel, label, type) ==
    IF hasLabel
    THEN [id |-> from \o <<"-">> \o to, from |-> from, to |-> to,
          label |-> label, type |-> type]
    ELSE [id |-> from \o <<"-">> \o to, from |-> from, to |-> to, type |-> type]

\* the edge object pushed by an edge pattern; label is label?.trim()
makeEdge(from, to, hasLabel, label, type) ==
    IF hasLabel
    THEN [id |-> from \o <<"-">> \o to, from |-> from, to |-> to,
          label |-> trim(label), type |-> type]
    ELSE [id |-> from \o <<"-">> \o to, from |-> from, to |-> to, type |-> type]

\* edges.push with an edge of a known id replacing the earlier one
pushEdge_merge(edges, edge) ==
    IF \E i \in DOMAIN edges : edges[i].id = edge.id
    THEN [i \in DOMAIN edges |-> IF edges[i].id = edge.id THEN edge ELSE edges[i]]
    ELSE Append(edges, edge)

\* a push that appends the edge twice
pushEdge_twice(edges, edge) == Append(Append(edges, edge), edge)

\* edges.push(edge)
pushEdge(edges, edge) == Append(edges, edge)

\* one iteration of the for loop over the lines: the first pattern that
\* matches is applied, then `continue`
processLine(acc, line) ==
    LET m1 == nodeMatch(line)
        m2 == edgeWithNodesMatch(line)
        m3 == edgeWithLabelAndNodeMatch(line)
        m4 == edgeWithLabelMatch(line)
        m5 == dashedEdgeMatch(line)
    IN  IF m1.ok
        THEN [nodes |-> mapSet(acc.nodes, m1.id, parseNodeDefinition(m1.id, m1.nodeDef)),
              edges |-> acc.edges]
        ELSE IF m2.ok
        THEN [nodes |-> mapSet(mapSet(acc.nodes, m2.fromId,
                                      parseNodeDefinition(m2.fromId, m2.fromNodeDef)),
                               m2.toId, parseNodeDefinition(m2.toId, m2.toNodeDef)),
              edges |-> pushEdge(acc.edges,
                                 makeEdge(m2.fromId, m2.toId, m2.hasLabel, m2.label, "arrow"))]
        ELSE IF m3.ok
        THEN [nodes |-> mapSet(ensureNode(acc.nodes, m3.from),
                               m3.toId, parseNodeDefinition(m3.toId, m3.toNodeDef)),
              edges |-> pushEdge(acc.edges,
                                 makeEdge(m3.from, m3.toId, TRUE, m3.label, "arrow"))]
        ELSE IF m4.ok
        THEN [nodes |-> ensureNode(ensureNode(acc.nodes, m4.from), m4.to),
              edges |-> pushEdge(acc.edges,
                                 makeEdge(m4.from, m4.to, m4.hasLabel, m4.label, "arrow"))]
        ELSE IF m5.ok
        THEN [nodes |-> ensureNode(ensureNode(acc.nodes, m5.from), m5.to),
              edges |-> pushEdge(acc.edges,
                                 makeEdge(m5.from, m5.to, m5.hasLabel, m5.label, "dashed"))]
        ELSE acc

\* code.split('\n').map(line => line.trim()).filter(line => line && !line.startsWith('%%'))
contentLines(code) ==
    SelectSeq([i \in DOMAIN split(code) |-> trim(split(code)[i])],
              LAMBDA l : l # <<>> /\ ~startsWith(l, <<"%", "%">>))

RECURSIVE processLines(_, _)
processLines(acc, lines) ==
    IF lines = <<>> THEN acc ELSE processLines(processLine(acc, Head(lines)), Tail(lines))

\* parseFlowchartContent(code)
parseFlowchartContent(code) ==
    processLines([nodes |-> <<>>, edges |-> <<>>], contentLines(code))

\* parse with the empty-input branch attaching an empty graph to the error
parse_errorKeepsGraph(code) ==
    IF trim(code) = <<>>
    THEN [error |-> [message |-> "Empty Mermaid code"],
          graph |-> [nodes |-> <<>>, edges |-> <<>>]]
    ELSE [graph |-> parseFlowchartContent(cleanMermaidCode(code))]

\* parse with the emptiness test made after the declaration is removed
parse_cleanFirst(code) ==
    IF cleanMermaidCode(code) = <<>>
    THEN [error |-> [message |-> "Empty Mermaid code"]]
    ELSE [graph |-> parseFlowchartContent(cleanMermaidCode(code))]

\* MermaidParser.parse(mermaidCode).  Every operation of the try block is
\* total on strings, so the catch block is never entered.
parse(code) ==
    IF trim(code) = <<>>
    THEN [error |-> [message |-> "Empty Mermaid code"]]
    ELSE [graph |-> parseFlowchartContent(cleanMermaidCode(code))]

(***************************************************************************)
(* Inputs of the parser: texts of at most MaxLines lines, each line drawn  *)
(* from LinePool, joined by line breaks.                                   *)
(***************************************************************************)
MaxLines == 3

SP == <<" ">>

LinePool == {
    <<"A", "[", "x", "]">>,                                       \* A[x]
    <<"A", "[", " ", "y", " ", "]">>,                             \* A[ y ]
    <<"B", "(", "(", "c", ")", ")">>,                             \* B((c))
    <<"B", "{", "d", "}">>,                                       \* B{d}
    <<"A", "[", "[", "s", "]", "]">>,                             \* A[[s]]
    <<"A">> \o SP \o ARROW \o SP \o <<"B">>,                      \* A --> B
    <<"B">> \o SP \o ARROW \o SP \o <<"A", "[", "e", "]">>,       \* B --> A[e]
    <<"A", "[", "x", "]">> \o SP \o ARROW \o SP
        \o <<"B", "{", "d", "}", "|", "l", "|">>,                 \* A[x] --> B{d}|l|
    <<"A">> \o SP \o ARROW \o <<"|", "l", "|">> \o SP
        \o <<"B", "[", "z", "]">>,                                \* A -->|l| B[z]
    <<"B">> \o SP \o DASHED \o SP \o <<"A">>,                     \* B -.-> A
    <<"%", "%", " ", "n">>,                                       \* %% n
    <<"g", "r", "a", "p", "h", " ", "T", "D">>,                   \* graph TD
    SP                                                            \* a blank line
}

RECURSIVE join(_)
join(lines) ==
    IF lines = <<>> THEN <<>>
    ELSE IF Len(lines) = 1 THEN lines[1]
    ELSE lines[1] \o <<"\n">> \o join(Tail(lines))

Documents == UNION {[1..n -> LinePool] : n \in 0..MaxLines}

(***************************************************************************)
(* The parser as a state machine: a text is given, parse is applied once.  *)
(***************************************************************************)
Pending == [state |-> "pending"]

\* the layout engine's variables when no layout has been requested
LayoutIdle ==
    /\ lpc = "idle"
    /\ elkInput = <<>>
    /\ elkPromise = Pending
    /\ layoutPromise = Pending
    /\ elkCalls = 0
    /\ phases = <<"Idle">>
    /\ observed = <<>>

\* the application's state when the component is not part of the run
AppIdle ==
    /\ debouncedCode = <<>>
    /\ timer = <<>>
    /\ layoutedGraph = [nodes |-> <<>>, edges |-> <<>>]
    /\ layoutBounds = [width |-> 800, height |-> 600]
    /\ inflight = {}
    /\ requests = 0
    /\ resolved = <<>>
    /\ lastCall = [by |-> "none"]
    /\ lastWrite = [by |-> "init"]
    /\ events = 0

InitParse ==
    /\ \E doc \in Documents : mermaidCode = join(doc)
    /\ parseResult = [graph |-> [nodes |-> <<>>, edges |-> <<>>]]
    /\ ppc = "input"
    /\ graph = [nodes |-> <<>>, edges |-> <<>>]
    /\ LayoutIdle
    /\ AppIdle

Parse ==
    /\ ppc = "input"
    /\ parseResult' = parse(mermaidCode)
    /\ ppc' = "parsed"
    /\ UNCHANGED <<mermaidCode, lvars, avars>>

NextParse == Parse

SpecParse == InitParse /\ [][NextParse]_vars

\* texts in which a line that holds a keyword of the declaration alone stands
\* before lines that begin with a direction token used as a node id
KeywordLinePool == {
    <<"f", "l", "o", "w", "c", "h", "a", "r", "t">>,              \* flowchart
    <<"L", "R">> \o SP \o ARROW \o SP \o <<"B">>,                \* LR --> B
    <<"g", "r", "a", "p", "h", " ", "T", "D">>,                   \* graph TD
    <<"A", "[", "x", "]">>,                                       \* A[x]
    <<"A", "[", "[", "s", "]", "]">>,                             \* A[[s]]
    <<"%", "%", " ", "n">>                                        \* %% n
}

KeywordDocuments == UNION {[1..n -> KeywordLinePool] : n \in 0..MaxLines}

InitParseKeyword ==
    /\ \E doc \in KeywordDocuments : mermaidCode = join(doc)
    /\ parseResult = [graph |-> [nodes |-> <<>>, edges |-> <<>>]]
    /\ ppc = "input"
    /\ graph = [nodes |-> <<>>, edges |-> <<>>]
    /\ LayoutIdle
    /\ AppIdle

SpecParseKeyword == InitParseKeyword /\ [][NextParse]_vars

\* texts of declarations and of edge lines of every pattern, among them an
\* edge from an id to itself and edges with and without a trailing label
EdgeLinePool == {
    <<"A", "[", "x", "]">>,                                       \* A[x]
    <<"B", "{", "d", "}">>,                                       \* B{d}
    <<"A">> \o SP \o ARROW \o SP \o <<"B">>,                      \* A --> B
    <<"B">> \o SP \o DASHED \o SP \o <<"A">>,                     \* B -.-> A
    <<"A">> \o SP \o ARROW \o <<"|", "l", "|">> \o SP
        \o <<"B", "[", "z", "]">>,                                \* A -->|l| B[z]
    <<"A">> \o SP \o ARROW \o <<"|", "l", "|">> \o SP
        \o <<"A", "[", "z", "]">>,                                \* A -->|l| A[z]
    <<"B", "(", "(", "c", ")", ")">> \o SP \o ARROW \o SP
        \o <<"A", "[", " ", "y", " ", "]">>,                      \* B((c)) --> A[ y ]
    <<"A", "[", "x", "]">> \o SP \o ARROW \o SP
        \o <<"B", "{", "d", "}", "|", " ", "l", " ", "|">>        \* A[x] --> B{d}| l |
}

EdgeDocuments == UNION {[1..n -> EdgeLinePool] : n \in 0..MaxLines}

InitParseEdges ==
    /\ \E doc \in EdgeDocuments : mermaidCode = join(doc)
    /\ parseResult = [graph |-> [nodes |-> <<>>, edges |-> <<>>]]
    /\ ppc = "input"
    /\ graph = [nodes |-> <<>>, edges |-> <<>>]
    /\ LayoutIdle
    /\ AppIdle

SpecParseEdges == InitParseEdges /\ [][NextParse]_vars

(***************************************************************************)
(* ELKLayoutEngine.                                                        *)
(*                                                                         *)
(* A block of code completes by returning a value or by throwing.          *)
(***************************************************************************)
Return(v) == [kind |-> "return", value |-> v]
Throw(e) == [kind |-> "throw", error |-> e]

\* an async function's promise: fulfilled by a return, rejected by a throw
settle(completion) ==
    IF completion.kind = "return"
    THEN [state |-> "fulfilled", value |-> completion.value]
    ELSE [state |-> "rejected", reason |-> completion.error]

\* JavaScript null
Null == [null |-> TRUE]
IsNull(v) == Has(v, "null")

\* getDefaultNodeSize(shape)
getDefaultNodeSize(shape) ==
    CASE shape = "circle"  -> [width |-> 80, height |-> 80]
      [] shape = "diamond" -> [width |-> 100, height |-> 80]
      [] OTHER             -> [width |-> 120, height |-> 60]

\* node.isDragged, as a condition
isPinned(node) == Has(node, "isDragged") /\ node.isDragged

\* node.size?.width || getDefaultNodeSize(node.shape).width
elkWidth(node) ==
    IF Has(node, "size") /\ node.size.width # 0
    THEN node.size.width ELSE getDefaultNodeSize(node.shape).width

\* node.size?.height || getDefaultNodeSize(node.shape).height
elkHeight(node) ==
    IF Has(node, "size") /\ node.size.height # 0
    THEN node.size.height ELSE getDefaultNodeSize(node.shape).height

FixedPosition == "elk.position" :> "fixed"

\* a child that passes the position of every positioned node, pinned or not
elkChild_anyPosition(node) ==
    LET base == [id |-> node.id, label |-> node.label,
                 width |-> elkWidth(node), height |-> elkHeight(node),
                 shape |-> node.shape]
    IN  IF Has(node, "position")
        THEN base @@ [x |-> node.position.x, y |-> node.position.y,
                      layoutOptions |-> FixedPosition]
        ELSE base

\* one element of children: graph.nodes.map(node => ({...}))
elkChild(node) ==
    LET base == [id |-> node.id, label |-> node.label,
                 width |-> elkWidth(node), height |-> elkHeight(node),
                 shape |-> node.shape]
    IN  IF isPinned(node) /\ Has(node, "position")
        THEN base @@ [x |-> node.position.x, y |-> node.position.y,
                      layoutOptions |-> FixedPosition]
        ELSE IF isPinned(node)
        THEN base @@ [layoutOptions |-> FixedPosition]
        ELSE base

\* one element of edges: graph.edges.map(edge => ({...}))
elkEdge(edge) ==
    [id |-> edge.id, sources |-> <<edge.from>>, targets |-> <<edge.to>>,
     labels |-> IF Has(edge, "label") /\ edge.label # <<>>
                THEN <<[text |-> edge.label,
                        layoutOptions |-> ("elk.edge.labels.placement" :> "CENTER")]>>
                ELSE <<>>]

\* the layoutOptions of the root
rootLayoutOptions ==
    ("elk.algorithm" :> "layered")
    @@ ("elk.layered.spacing.nodeNodeBetweenLayers" :> "100")
    @@ ("elk.layered.spacing.nodeNode" :> "80")
    @@ ("elk.direction" :> "DOWN")
    @@ ("elk.padding" :> "[top=50,left=50,bottom=50,right=50]")
    @@ ("elk.layered.thoroughness" :> "7")
    @@ ("elk.layered.unnecessaryBendpoints" :> "false")

\* convertToELKGraph(graph)
convertToELKGraph(g) ==
    [id |-> "root",
     layoutOptions |-> rootLayoutOptions,
     children |-> [i \in DOMAIN g.nodes |-> elkChild(g.nodes[i])],
     edges |-> [i \in DOMAIN g.edges |-> elkEdge(g.edges[i])]]

\* originalNodes.get(id) for originalNodes = new Map(graph.nodes.map(node => [node.id, node])):
\* the last node with that id, as a sequence of zero or one node
originalNode(nodes, id) ==
    LET at == {i \in DOMAIN nodes : nodes[i].id = id}
    IN  IF at = {} THEN <<>>
        ELSE <<nodes[CHOOSE i \in at : \A j \in at : j <= i]>>

\* a node made from the child alone, without the original node
fromElkChild_childOnly(child, nodes) ==
    [id |-> child.id,
     label |-> IF Has(child, "label") /\ child.label # <<>>
               THEN child.label ELSE child.id,
     shape |-> IF Has(child, "shape") THEN child.shape ELSE "rectangle",
     position |-> [x |-> IF Has(child, "x") THEN child.x ELSE 0,
                   y |-> IF Has(child, "y") THEN child.y ELSE 0],
     size |-> [width  |-> IF Has(child, "width") /\ child.width # 0
                          THEN child.width ELSE 120,
               height |-> IF Has(child, "height") /\ child.height # 0
                          THEN child.height ELSE 60],
     isDragged |-> FALSE]

\* one node of convertFromELKGraph: elkGraph.children.map((child) => {...})
fromElkChild(child, nodes) ==
    LET orig == originalNode(nodes, child.id)
    IN  [id |-> child.id,
         label |-> IF Has(child, "label") /\ child.label # <<>>
                   THEN child.label ELSE child.id,
         shape |-> IF Has(child, "shape") THEN child.shape
                   ELSE IF orig # <<>> THEN orig[1].shape
                   ELSE "rectangle",
         position |-> [x |-> IF Has(child, "x") THEN child.x ELSE 0,
                       y |-> IF Has(child, "y") THEN child.y ELSE 0],
         size |-> [width  |-> IF Has(child, "width") /\ child.width # 0
                              THEN child.width ELSE 120,
                   height |-> IF Has(child, "height") /\ child.height # 0
                              THEN child.height ELSE 60],
         isDragged |-> orig # <<>> /\ isPinned(orig[1])]

\* edge.sections?.[0]?.bendPoints || []
elkPoints(edge) ==
    IF Has(edge, "sections") /\ edge.sections # <<>>
                             /\ Has(edge.sections[1], "bendPoints")
    THEN edge.sections[1].bendPoints
    ELSE <<>>

\* one edge of convertFromELKGraph: elkGraph.edges.map((edge) => ({...})).
\* edge.sources[0] of an edge without sources throws a TypeError.
fromElkEdge(edge) ==
    IF ~Has(edge, "sources") \/ ~Has(edge, "targets")
    THEN Throw("TypeError")
    ELSE Return(
        IF Has(edge, "labels") /\ edge.labels # <<>>
        THEN [id |-> edge.id, from |-> edge.sources[1], to |-> edge.targets[1],
              label |-> edge.labels[1].text, points |-> elkPoints(edge)]
        ELSE [id |-> edge.id, from |-> edge.sources[1], to |-> edge.targets[1],
              points |-> elkPoints(edge)])

\* convertFromELKGraph(elkGraph, originalNodes); elkGraph.children of null throws
convertFromELKGraph(elkGraph, nodes) ==
    IF IsNull(elkGraph) THEN Throw("TypeError")
    ELSE LET children == IF Has(elkGraph, "children") THEN elkGraph.children ELSE <<>>
             elkEdges == IF Has(elkGraph, "edges") THEN elkGraph.edges ELSE <<>>
             made == [i \in DOMAIN elkEdges |-> fromElkEdge(elkEdges[i])]
         IN  IF \E i \in DOMAIN made : made[i].kind = "throw"
             THEN Throw("TypeError")
             ELSE Return([nodes |-> [i \in DOMAIN children |->
                                        fromElkChild(children[i], nodes)],
                          edges |-> [i \in DOMAIN made |-> made[i].value]])

nodeWidth == 120
nodeHeight == 60
horizontalSpacing == 150
verticalSpacing == 100
nodesPerRow == 4

\* a node of the fallback placed in one row, without the wrap after nodesPerRow
fallbackNode_oneRow(node, index) ==
    [k \in DOMAIN node \cup {"position", "size"} |->
        CASE k = "position" -> [x |-> index * horizontalSpacing + 50, y |-> 50]
          [] k = "size" -> [width |-> nodeWidth, height |-> nodeHeight]
          [] OTHER -> node[k]]

\* a fallback node rebuilt from id, label and shape alone, as the conversion
\* of an engine result rebuilds it
fallbackNode_rebuilt(node, index) ==
    [id |-> node.id, label |-> node.label, shape |-> node.shape,
     position |-> [x |-> (index % nodesPerRow) * horizontalSpacing + 50,
                   y |-> (index \div nodesPerRow) * verticalSpacing + 50],
     size |-> [width |-> nodeWidth, height |-> nodeHeight],
     isDragged |-> FALSE]

\* one node of fallbackLayout: { ...node, position: {...}, size: {...} }, index from 0
fallbackNode(node, index) ==
    [k \in DOMAIN node \cup {"position", "size"} |->
        CASE k = "position" ->
                 [x |-> (index % nodesPerRow) * horizontalSpacing + 50,
                  y |-> (index \div nodesPerRow) * verticalSpacing + 50]
          [] k = "size" -> [width |-> nodeWidth, height |-> nodeHeight]
          [] OTHER -> node[k]]

\* a fallback that computes the bounds but leaves the nodes as they came
fallbackLayout_noPosition(g) ==
    LET maxRow == (Len(g.nodes) + nodesPerRow - 1) \div nodesPerRow
    IN  [graph |-> [nodes |-> g.nodes, edges |-> g.edges],
         bounds |-> [width |-> nodesPerRow * horizontalSpacing + 100,
                     height |-> maxRow * verticalSpacing + 100]]

\* fallbackLayout(graph)
fallbackLayout(g) ==
    LET maxRow == (Len(g.nodes) + nodesPerRow - 1) \div nodesPerRow
    IN  [graph |-> [nodes |-> [i \in DOMAIN g.nodes |-> fallbackNode(g.nodes[i], i - 1)],
                    edges |-> g.edges],
         bounds |-> [width |-> nodesPerRow * horizontalSpacing + 100,
                     height |-> maxRow * verticalSpacing + 100]]

\* an emptiness test that no graph passes
isEmptyGraph_never(g) == FALSE

\* graph.nodes.length === 0
isEmptyGraph(g) == Len(g.nodes) = 0

\* the result of layout for a graph without nodes
emptyLayout ==
    [graph |-> [nodes |-> <<>>, edges |-> <<>>], bounds |-> [width |-> 800, height |-> 600]]

\* the try block of layout, from the point where the awaited elk.layout promise has
\* settled: a rejection is thrown by await, a value is converted back
tryBlock(g, settled) ==
    IF settled.state = "rejected" THEN Throw(settled.reason)
    ELSE LET awaited == settled.value   \* const layoutedGraph = await elk.layout(elkGraph)
             result == convertFromELKGraph(awaited, g.nodes)
         IN  IF result.kind = "throw" THEN result
             ELSE Return(
                 [graph |-> result.value,
                  bounds |-> [width  |-> IF Has(awaited, "width") /\ awaited.width # 0
                                         THEN awaited.width ELSE 800,
                              height |-> IF Has(awaited, "height") /\ awaited.height # 0
                                         THEN awaited.height ELSE 600]])

\* a catch block that logs and throws the error again
catchBlock_rethrow(g, error) == Throw(error)

\* the catch block of layout: console.warn, then return this.fallbackLayout(graph)
catchBlock(g, error) == Return(fallbackLayout(g))

\* try { ... } catch (error) { ... } of layout, once elk.layout has settled
tryCatch(g, settled) ==
    LET t == tryBlock(g, settled)
    IN  IF t.kind = "throw" THEN catchBlock(g, t.error) ELSE t

(***************************************************************************)
(* The external engine, elk.layout.  It is not part of the repository: the *)
(* call may throw, or return a promise that is later rejected or fulfilled.*)
(* A well-formed value is the submitted graph with a position for every    *)
(* child (a child submitted with x, y and the fixed-position option keeps  *)
(* them, which is the most the adapter can ask of the engine), a section   *)
(* for every edge, and possibly the drawing's width and height.  The other *)
(* values are malformed: null, an object without children and edges, and a *)
(* graph whose edges have lost their sources and targets.                  *)
(***************************************************************************)
EnginePositions == {[x |-> 12, y |-> 12], [x |-> 212, y |-> 92]}

EngineSections == <<[bendPoints |-> <<[x |-> 72, y |-> 52]>>]>>

elkPlaced(elkGraph, pos, withSize) ==
    LET children == [i \in DOMAIN elkGraph.children |->
                        IF Has(elkGraph.children[i], "x")
                        THEN elkGraph.children[i]
                        ELSE elkGraph.children[i] @@ pos[i]]
        edges == [i \in DOMAIN elkGraph.edges |->
                     elkGraph.edges[i] @@ [sections |-> EngineSections]]
        base == [id |-> elkGraph.id, layoutOptions |-> elkGraph.layoutOptions,
                 children |-> children, edges |-> edges]
    IN  IF withSize THEN base @@ [width |-> 400, height |-> 300] ELSE base

\* the placements of the children: from one of the origins, each child 200
\* to the right of the one before
placement(elkGraph, origin) ==
    [i \in DOMAIN elkGraph.children |-> [x |-> origin.x + 200 * (i - 1), y |-> origin.y]]

EnginePlacements(elkGraph) == {placement(elkGraph, origin) : origin \in EnginePositions}

\* the value without the shape the adapter attached to every child, a property
\* the engine's schema does not know
withoutShapes(value) ==
    [value EXCEPT !.children =
        [i \in DOMAIN value.children |->
            [k \in DOMAIN value.children[i] \ {"shape"} |-> value.children[i][k]]]]

elkWellFormed(elkGraph) ==
    LET placed == {elkPlaced(elkGraph, pos, withSize) :
                      pos \in EnginePlacements(elkGraph), withSize \in BOOLEAN}
    IN  placed \cup {withoutShapes(value) : value \in placed}

elkMalformed(elkGraph) ==
    {Null,
     [id |-> elkGraph.id],
     [id |-> elkGraph.id, children |-> elkGraph.children,
      edges |-> [i \in DOMAIN elkGraph.edges |-> [id |-> elkGraph.edges[i].id]]]}

\* every way the promise returned by elk.layout(elkGraph) can settle
elkSettlements(elkGraph) ==
    {[state |-> "fulfilled", value |-> v] :
        v \in elkWellFormed(elkGraph) \cup elkMalformed(elkGraph)}
    \cup {[state |-> "rejected", reason |-> "ELK error"]}

(***************************************************************************)
(* Inputs of the layout: graphs of at most MaxNodes nodes with distinct    *)
(* ids, each node fresh from the parser, laid out, pinned by a drag (with  *)
(* or without a position) or given a size only, one node kind for each     *)
(* shape of the type, and no edge or one edge.                             *)
(***************************************************************************)
MaxNodes == 3

NodeKinds == {
    [shape |-> "rectangle"],
    [shape |-> "circle", position |-> [x |-> 212, y |-> 92],
     size |-> [width |-> 80, height |-> 80], isDragged |-> FALSE],
    [shape |-> "diamond", position |-> [x |-> 7, y |-> 0],
     size |-> [width |-> 100, height |-> 80], isDragged |-> TRUE],
    [shape |-> "rounded", isDragged |-> TRUE],
    [shape |-> "stadium", size |-> [width |-> 120, height |-> 60],
     style |-> [fill |-> "#fde68a"]]
}

nodeId(i) == <<UpperCase[i]>>

inputNode(kind, i) == [id |-> nodeId(i), label |-> nodeId(i)] @@ kind

\* no edge, or one edge from the first node to the last (an edge without its
\* nodes when the graph has none)
inputEdges(n) ==
    LET last == IF n = 0 THEN 1 ELSE n
    IN  {<<>>,
         <<[id |-> nodeId(1) \o <<"-">> \o nodeId(last), from |-> nodeId(1),
            to |-> nodeId(last), label |-> <<"l">>, type |-> "dashed"]>>}

InputGraphs ==
    UNION {{[nodes |-> [i \in 1..n |-> inputNode(kinds[i], i)], edges |-> es] :
               kinds \in [1..n -> NodeKinds], es \in inputEdges(n)} :
           n \in 0..MaxNodes}

\* graphs of at most MaxGridNodes nodes, none pinned, without edges: enough
\* nodes for a second row of the fallback grid
MaxGridNodes == 5

UnpinnedKinds == {kind \in NodeKinds : ~isPinned(kind)}

GridGraphs ==
    UNION {{[nodes |-> [i \in 1..n |-> inputNode(kinds[i], i)], edges |-> <<>>] :
               kinds \in [1..n -> UnpinnedKinds]} :
           n \in 0..MaxGridNodes}

(***************************************************************************)
(* One invocation of ELKLayoutEngine.layout as a state machine.            *)
(***************************************************************************)
ParserIdle ==
    /\ mermaidCode = <<>>
    /\ parseResult = [graph |-> [nodes |-> <<>>, edges |-> <<>>]]
    /\ ppc = "input"

InitLayout ==
    /\ graph \in InputGraphs
    /\ LayoutIdle
    /\ ParserIdle
    /\ AppIdle

\* the states entered after elk.layout has settled, from the path the code takes
resumePhases(g, settled) ==
    (IF settled.state = "fulfilled" THEN <<"Reconciling">> ELSE <<>>)
    \o (IF tryBlock(g, settled).kind = "throw"
        THEN <<"Failed", "FallbackComputing">> ELSE <<>>)
    \o (IF tryCatch(g, settled).kind = "return" THEN <<"Done">> ELSE <<>>)

\* the states entered when elk.layout throws instead of returning a promise
thrownPhases(g, error) ==
    <<"Failed", "FallbackComputing">>
    \o (IF catchBlock(g, error).kind = "return" THEN <<"Done">> ELSE <<>>)

\* layout(graph) is called and runs to its first suspension or to its return
LayoutCall ==
    /\ lpc = "idle"
    /\ IF isEmptyGraph(graph)
       THEN /\ layoutPromise' = settle(Return(emptyLayout))
            /\ phases' = phases \o <<"Done">>
            /\ lpc' = "returned"
            /\ UNCHANGED <<elkInput, elkPromise, elkCalls>>
       ELSE /\ elkInput' = convertToELKGraph(graph)
            /\ elkCalls' = elkCalls + 1
            /\ \/ /\ elkPromise' = Pending
                  /\ layoutPromise' = Pending
                  /\ phases' = phases \o <<"Converting", "Computing">>
                  /\ lpc' = "awaiting"
               \/ /\ elkPromise' = Pending
                  /\ layoutPromise' = settle(catchBlock(graph, "ELK error"))
                  /\ phases' = phases \o <<"Converting", "Computing">>
                                      \o thrownPhases(graph, "ELK error")
                  /\ lpc' = "returned"
    /\ UNCHANGED <<graph, observed, pvars, avars>>

\* the engine settles the promise it returned
EngineSettle ==
    /\ lpc = "awaiting"
    /\ elkPromise = Pending
    /\ elkPromise' \in elkSettlements(elkInput)
    /\ UNCHANGED <<graph, lpc, elkInput, layoutPromise, elkCalls, phases, observed, pvars, avars>>

\* layout resumes after the await and runs to its return
LayoutResume ==
    /\ lpc = "awaiting"
    /\ elkPromise # Pending
    /\ layoutPromise' = settle(tryCatch(graph, elkPromise))
    /\ phases' = phases \o resumePhases(graph, elkPromise)
    /\ lpc' = "returned"
    /\ UNCHANGED <<graph, elkInput, elkPromise, elkCalls, observed, pvars, avars>>

\* the caller's callbacks run on the settled promise
Deliver ==
    /\ lpc = "returned"
    /\ layoutPromise # Pending
    /\ observed' = Append(observed, layoutPromise)
    /\ lpc' = "delivered"
    /\ UNCHANGED <<graph, elkInput, elkPromise, layoutPromise, elkCalls, phases, pvars, avars>>

NextLayout == LayoutCall \/ EngineSettle \/ LayoutResume \/ Deliver

SpecLayout == InitLayout /\ [][NextLayout]_vars

\* the event loop runs every ready callback, and the engine call settles
FairSpecLayout == SpecLayout /\ WF_vars(NextLayout)

\* layout invoked on a graph of unpinned nodes
InitLayoutGrid ==
    /\ graph \in GridGraphs
    /\ LayoutIdle
    /\ ParserIdle
    /\ AppIdle

SpecLayoutGrid == InitLayoutGrid /\ [][NextLayout]_vars

(***************************************************************************)
(* The application component (App.tsx): the editor text, its debounced     *)
(* copy, the parse effect, the layout requests in flight and the displayed *)
(* graph.  A layout request is one invocation of ELKLayoutEngine.layout;   *)
(* when the engine settles, layout resumes, its promise is fulfilled and   *)
(* the callback given to then runs, all in consecutive microtasks, so the  *)
(* three are one step.  A request on an empty graph is fulfilled at once   *)
(* and its callback runs right after the handler that made the request.    *)
(***************************************************************************)
MaxEvents == 3

AppTexts == {
    <<"A", "[", "x", "]">>,                                       \* A[x]
    <<"A">> \o SP \o ARROW \o SP \o <<"B">>,                      \* A --> B
    <<>>                                                          \* the empty text
}

DragIds == {<<"A">>, <<"Z">>}

DragPositions == {[x |-> 7, y |-> 0]}

\* how the engine settles for the application: the well-formed value with the
\* drawing's size that it computes for the submitted graph, or a rejection
AppSettlements(elkGraph) ==
    {[state |-> "fulfilled",
      value |-> elkPlaced(elkGraph, placement(elkGraph, [x |-> 12, y |-> 12]), TRUE)],
     [state |-> "rejected", reason |-> "ELK error"]}

\* an updater that gives the position and the flag to every node
dragNode_everyNode(prev, id, position) ==
    [prev EXCEPT !.nodes =
        [i \in DOMAIN prev.nodes |->
            [k \in DOMAIN prev.nodes[i] \cup {"position", "isDragged"} |->
                CASE k = "position" -> position
                  [] k = "isDragged" -> TRUE
                  [] OTHER -> prev.nodes[i][k]]]]

\* the updater of handleNodeDrag:
\* prev => ({...prev, nodes: prev.nodes.map(node => node.id === nodeId
\*             ? {...node, position, isDragged: true} : node)})
dragNode(prev, id, position) ==
    [prev EXCEPT !.nodes =
        [i \in DOMAIN prev.nodes |->
            IF prev.nodes[i].id = id
            THEN [k \in DOMAIN prev.nodes[i] \cup {"position", "isDragged"} |->
                     CASE k = "position" -> position
                       [] k = "isDragged" -> TRUE
                       [] OTHER -> prev.nodes[i][k]]
            ELSE prev.nodes[i]]]

\* a callback that drops the result of a request made before the newest one
thenCallback_latestRequestOnly(shown, layoutResult, request, newest) ==
    IF request < newest THEN shown
    ELSE [graph |-> layoutResult.graph, bounds |-> layoutResult.bounds]

\* layoutResult => { setLayoutedGraph(layoutResult.graph); setLayoutBounds(layoutResult.bounds) }
\* for the displayed graph and bounds `shown`; it does not look at which
\* request it belongs to
thenCallback(shown, layoutResult, request, newest) ==
    [graph |-> layoutResult.graph, bounds |-> layoutResult.bounds]

\* the condition under which the render draws the graph:
\* layoutedGraph.nodes.length > 0 ? <EnhancedSVGRenderer graph={layoutedGraph} .../> : ...
rendersGraph == Len(layoutedGraph.nodes) > 0

\* error={parseResult.error?.message}: the message the editor shows, as a
\* sequence of zero or one message
shownError == IF Has(parseResult, "error") THEN <<parseResult.error.message>> ELSE <<>>

InitApp ==
    /\ mermaidCode \in AppTexts
    /\ debouncedCode = mermaidCode
    /\ timer = <<mermaidCode>>
    /\ parseResult = [graph |-> [nodes |-> <<>>, edges |-> <<>>]]
    /\ ppc = "input"
    /\ layoutedGraph = [nodes |-> <<>>, edges |-> <<>>]
    /\ layoutBounds = [width |-> 800, height |-> 600]
    /\ inflight = {}
    /\ requests = 0
    /\ resolved = <<>>
    /\ lastCall = [by |-> "none"]
    /\ lastWrite = [by |-> "init"]
    /\ events = 0
    /\ graph = [nodes |-> <<>>, edges |-> <<>>]
    /\ LayoutIdle

\* a change of the text that leaves a pending call of the debounced setter in
\* place, without the cancel of the effect's cleanup
EditText_noCancel(text) ==
    /\ events < MaxEvents
    /\ text # mermaidCode
    /\ mermaidCode' = text
    /\ timer' = IF timer # <<>> THEN timer ELSE <<text>>
    /\ events' = events + 1
    /\ UNCHANGED <<parseResult, ppc, lvars, debouncedCode, layoutedGraph, layoutBounds,
                   inflight, requests, resolved, lastCall, lastWrite>>

\* onChange={setMermaidCode}; on the render that follows, the effect of
\* useDebounce cancels the pending call and makes a new one
EditText(text) ==
    /\ events < MaxEvents
    /\ text # mermaidCode
    /\ mermaidCode' = text
    /\ timer' = <<text>>
    /\ events' = events + 1
    /\ UNCHANGED <<parseResult, ppc, lvars, debouncedCode, layoutedGraph, layoutBounds,
                   inflight, requests, resolved, lastCall, lastWrite>>

\* the delay has passed: setDebouncedValue(newValue); a changed value makes
\* the parse effect run
TimerFire ==
    /\ timer # <<>>
    /\ debouncedCode' = timer[1]
    /\ timer' = <<>>
    /\ ppc' = IF timer[1] # debouncedCode THEN "input" ELSE ppc
    /\ UNCHANGED <<mermaidCode, parseResult, lvars, layoutedGraph, layoutBounds,
                   inflight, requests, resolved, lastCall, lastWrite, events>>

\* ELKLayoutEngine.layout(g).then(callback), called by `by`
StartLayout(g, by) ==
    /\ requests' = requests + 1
    /\ lastCall' = [by |-> by, input |-> g, shown |-> layoutedGraph]
    /\ IF isEmptyGraph(g)
       THEN LET after == thenCallback([graph |-> layoutedGraph, bounds |-> layoutBounds],
                                      emptyLayout, requests + 1, requests + 1)
            IN  /\ layoutedGraph' = after.graph
                /\ layoutBounds' = after.bounds
                /\ resolved' = Append(resolved, requests + 1)
                /\ lastWrite' = [by |-> "layout", value |-> emptyLayout]
                /\ UNCHANGED inflight
       ELSE /\ inflight' = inflight \cup {[seq |-> requests + 1, input |-> g]}
            /\ UNCHANGED <<layoutedGraph, layoutBounds, resolved, lastWrite>>

\* the effect on [debouncedCode]
ParseEffect ==
    /\ ppc = "input"
    /\ parseResult' = parse(debouncedCode)
    /\ ppc' = "parsed"
    /\ IF Has(parse(debouncedCode), "graph")
       THEN StartLayout(parse(debouncedCode).graph, "parse")
       ELSE UNCHANGED <<layoutedGraph, layoutBounds, inflight, requests, resolved,
                        lastCall, lastWrite>>
    /\ UNCHANGED <<mermaidCode, lvars, debouncedCode, timer, events>>

\* autoLayout, when the displayed graph has nodes
AutoLayout ==
    /\ events < MaxEvents
    /\ Len(layoutedGraph.nodes) > 0
    /\ StartLayout(layoutedGraph, "auto")
    /\ events' = events + 1
    /\ UNCHANGED <<pvars, lvars, debouncedCode, timer>>

\* the engine settles for a request in flight, layout resumes and is
\* fulfilled, and the request's callback runs
LayoutSettle(r, settled) ==
    LET value == tryCatch(r.input, settled).value
        after == thenCallback([graph |-> layoutedGraph, bounds |-> layoutBounds],
                              value, r.seq, requests)
    IN  /\ layoutedGraph' = after.graph
        /\ layoutBounds' = after.bounds
        /\ inflight' = inflight \ {r}
        /\ resolved' = Append(resolved, r.seq)
        /\ lastWrite' = [by |-> "layout", value |-> value]
        /\ UNCHANGED <<pvars, lvars, debouncedCode, timer, requests, lastCall, events>>

\* handleNodeDrag(nodeId, position)
NodeDrag(id, position) ==
    /\ events < MaxEvents
    /\ layoutedGraph' = dragNode(layoutedGraph, id, position)
    /\ lastWrite' = [by |-> "drag"]
    /\ events' = events + 1
    /\ UNCHANGED <<pvars, lvars, debouncedCode, timer, layoutBounds, inflight, requests,
                   resolved, lastCall>>

NextApp ==
    \/ \E text \in AppTexts : EditText(text)
    \/ TimerFire
    \/ ParseEffect
    \/ AutoLayout
    \/ \E r \in inflight :
           \E settled \in AppSettlements(convertToELKGraph(r.input)) : LayoutSettle(r, settled)
    \/ \E id \in DragIds, position \in DragPositions : NodeDrag(id, position)

SpecApp == InitApp /\ [][NextApp]_vars

\* a step of ParseEffect as ppc shows it: no other action takes ppc from
\* "input" to "parsed", and ParseEffect is enabled exactly when ppc = "input"
ParseEffectStep == ppc = "input" /\ ppc' = "parsed"

\* a pending timer expires after the delay, and React runs the effect of a
\* changed debouncedCode after the render
FairSpecApp == SpecApp /\ WF_vars(TimerFire) /\ WF_ppc(ParseEffectStep)

(***************************************************************************)
(* Properties of MermaidParser, checked under SpecParse.                   *)
(***************************************************************************)
parsed == ppc = "parsed"

gotGraph == parsed /\ Has(parseResult, "graph")

\* the text is empty or holds only whitespace
Blank(text) == \A i \in DOMAIN text : IsSpace(text[i])

\* the text's last line is `line`
LastLineIs(text, line) == text = line \/ endsWith(text, <<"\n">> \o line)

\* the text has `line` among its lines
HasLine(text, line) == \E i \in DOMAIN split(text) : split(text)[i] = line

\* C1: for every input, parse returns a ParseResult in which exactly one of
\* graph and error is populated; a graph holds a node list and an edge list,
\* an error holds a message.
C1_ExactlyOneOfGraphAndError ==
    parsed =>
        /\ DOMAIN parseResult \subseteq {"graph", "error"}
        /\ Has(parseResult, "graph") # Has(parseResult, "error")
        /\ Has(parseResult, "graph") => DOMAIN parseResult.graph = {"nodes", "edges"}
        /\ Has(parseResult, "error") => Has(parseResult.error, "message")

\* an error result has been returned for a text that is not the empty string
C1_Witness ==
    parsed /\ Has(parseResult, "error") /\ ~Has(parseResult, "graph") /\ mermaidCode # <<>>

\* C2: in every graph parse returns, every edge's from and to are ids of nodes
\* of the same graph, whatever lines the input mixes.
C2_NoDanglingEdge ==
    gotGraph =>
        \A i \in DOMAIN parseResult.graph.edges :
            LET e == parseResult.graph.edges[i]
                ns == parseResult.graph.nodes
            IN  /\ \E j \in DOMAIN ns : ns[j].id = e.from
                /\ \E j \in DOMAIN ns : ns[j].id = e.to

\* a graph with two edges parsed from a text that also holds declarations and
\* lines the parser does not recognize
C2_Witness ==
    /\ gotGraph
    /\ Len(parseResult.graph.edges) = 2
    /\ HasLine(mermaidCode, <<"A", "[", "[", "s", "]", "]">>)

\* the ids a line makes the parser declare or refer to: the id of a bare
\* declaration, the endpoints of a recognized edge line
lineIds(line) ==
    IF nodeMatch(line).ok THEN {nodeMatch(line).id}
    ELSE IF edgeWithNodesMatch(line).ok
    THEN {edgeWithNodesMatch(line).fromId, edgeWithNodesMatch(line).toId}
    ELSE IF edgeWithLabelAndNodeMatch(line).ok
    THEN {edgeWithLabelAndNodeMatch(line).from, edgeWithLabelAndNodeMatch(line).toId}
    ELSE IF edgeWithLabelMatch(line).ok
    THEN {edgeWithLabelMatch(line).from, edgeWithLabelMatch(line).to}
    ELSE IF dashedEdgeMatch(line).ok
    THEN {dashedEdgeMatch(line).from, dashedEdgeMatch(line).to}
    ELSE {}

\* the lines of the input, as the parser numbers them
inputLines == contentLines(cleanMermaidCode(mermaidCode))

\* the ids of every line of the input
lineIdsOf == LET lines == inputLines IN [k \in DOMAIN lines |-> lineIds(lines[k])]

\* the lines on which id appears, and the first of them, for the ids of the lines
appearsIn(ids, id) == {k \in DOMAIN ids : id \in ids[k]}

firstIn(ids, id) == CHOOSE k \in appearsIn(ids, id) : \A j \in appearsIn(ids, id) : k <= j

appearsOn(id) == appearsIn(lineIdsOf, id)

\* C6: every node id occurs once in the node list, and the nodes are in the
\* order of the lines on which their ids first appear, also when a later line
\* declares the id again.
C6_UniqueInFirstAppearanceOrder ==
    gotGraph =>
        LET ns == parseResult.graph.nodes
            ids == lineIdsOf
        IN  /\ \A i, j \in DOMAIN ns : ns[i].id = ns[j].id => i = j
            /\ \A i \in DOMAIN ns : appearsIn(ids, ns[i].id) # {}
            /\ \A i, j \in DOMAIN ns :
                   i < j => firstIn(ids, ns[i].id) <= firstIn(ids, ns[j].id)

\* an id first seen on line 1 is declared again on line 3, after another id
\* was first seen on line 2; the result lists the two ids in that order
C6_Witness ==
    /\ gotGraph
    /\ Len(inputLines) = 3
    /\ Len(parseResult.graph.nodes) = 2
    /\ appearsOn(parseResult.graph.nodes[1].id) = {1, 3}
    /\ appearsOn(parseResult.graph.nodes[2].id) = {2}

\* the bracket forms written in a line, with the id each is attached to, in
\* the order written: a run of word characters followed by [[text]], [text],
\* ((text)) or {text}
reDouble(s, i) == reLit(s, reNot(s, reLit(s, i, <<"[", "[">>), "]"), <<"]", "]">>)

formEnd(s, i) == IF reDouble(s, i) # 0 THEN reDouble(s, i) ELSE reNodeDef(s, i)

wordStarts(s) ==
    {p \in DOMAIN s : IsWord(s[p]) /\ (p = 1 \/ ~IsWord(s[p - 1]))}

formStarts(s) == {p \in wordStarts(s) : formEnd(s, skipWord(s, p)) # 0}

writtenForm(s, p) ==
    [id |-> SubSeq(s, p, skipWord(s, p) - 1),
     form |-> SubSeq(s, skipWord(s, p), formEnd(s, skipWord(s, p)) - 1)]

\* the places (line, column) where a bracket form is written for id
writtenFor(id) ==
    UNION {{<<k, p>> : p \in {q \in formStarts(inputLines[k]) :
                                  writtenForm(inputLines[k], q).id = id}} :
           k \in DOMAIN inputLines}

lastWrittenFor(id) ==
    LET at == CHOOSE a \in writtenFor(id) :
                  \A b \in writtenFor(id) :
                      b[1] < a[1] \/ (b[1] = a[1] /\ b[2] <= a[2])
    IN  writtenForm(inputLines[at[1]], at[2]).form

\* the shape and the label a bracket form stands for
formShape(form) ==
    CASE form[1] = "(" -> "circle"
      [] form[1] = "{" -> "diamond"
      [] OTHER         -> "rectangle"

formLabel(form) ==
    IF Len(form) >= 4 /\ form[1] = form[2] /\ form[Len(form)] = form[Len(form) - 1]
    THEN trim(SubSeq(form, 3, Len(form) - 2))
    ELSE trim(SubSeq(form, 2, Len(form) - 1))

\* C7: the label and the shape of every node are those of the last bracket
\* form written for its id anywhere in the input, in a bare declaration or
\* attached to an endpoint of an edge line.
C7_LastBracketFormWins ==
    gotGraph =>
        \A i \in DOMAIN parseResult.graph.nodes :
            LET n == parseResult.graph.nodes[i]
            IN  writtenFor(n.id) # {} =>
                    /\ n.label = formLabel(lastWrittenFor(n.id))
                    /\ n.shape = formShape(lastWrittenFor(n.id))

\* C8: parse returns an error (a message, no graph) exactly when the input is
\* empty or whitespace only; every other input yields a graph.
C8_ErrorIffBlank ==
    parsed =>
        /\ Has(parseResult, "error") <=> Blank(mermaidCode)
        /\ Has(parseResult, "error") =>
               Has(parseResult.error, "message") /\ ~Has(parseResult, "graph")
        /\ ~Blank(mermaidCode) => Has(parseResult, "graph")

\* an input that holds only the header line yields a graph without nodes and edges
C8_Witness ==
    /\ parsed
    /\ mermaidCode = <<"g", "r", "a", "p", "h", " ", "T", "D">>
    /\ parseResult = [graph |-> [nodes |-> <<>>, edges |-> <<>>]]

\* bare declarations with the node each one stands for
BareDeclarations == {
    [line |-> <<"A", "[", "x", "]">>, id |-> <<"A">>,
     shape |-> "rectangle", label |-> <<"x">>],
    [line |-> <<"A", "[", " ", "y", " ", "]">>, id |-> <<"A">>,
     shape |-> "rectangle", label |-> <<"y">>],
    [line |-> <<"B", "(", "(", "c", ")", ")">>, id |-> <<"B">>,
     shape |-> "circle", label |-> <<"c">>],
    [line |-> <<"B", "{", "d", "}">>, id |-> <<"B">>,
     shape |-> "diamond", label |-> <<"d">>]
}

\* the graph has exactly one node with this id, and it has this shape and label
DeclaresNode(id, shape, label) ==
    /\ gotGraph
    /\ \E i \in DOMAIN parseResult.graph.nodes : parseResult.graph.nodes[i].id = id
    /\ \A i \in DOMAIN parseResult.graph.nodes :
           parseResult.graph.nodes[i].id = id =>
               /\ parseResult.graph.nodes[i].shape = shape
               /\ parseResult.graph.nodes[i].label = label

\* C9: a bare declaration id((text)) gives a circle, id{text} a diamond,
\* id[text] a rectangle, each labelled with the text trimmed (stated for the
\* last line of the input, which no later line overwrites).
C9_BareDeclarationDecoded ==
    parsed =>
        \A d \in BareDeclarations :
            LastLineIs(mermaidCode, d.line) => DeclaresNode(d.id, d.shape, d.label)

\* A[x] on the first line, B((c)) on the last: B is a circle labelled c
C9_Witness ==
    /\ parsed
    /\ startsWith(mermaidCode, <<"A", "[", "x", "]", "\n">>)
    /\ LastLineIs(mermaidCode, <<"B", "(", "(", "c", ")", ")">>)
    /\ DeclaresNode(<<"B">>, "circle", <<"c">>)

\* C10: a line id[[text]] declares node id as a rectangle labelled text.
C10_DoubleBracketDeclares ==
    parsed =>
        (LastLineIs(mermaidCode, <<"A", "[", "[", "s", "]", "]">>)
            => DeclaresNode(<<"A">>, "rectangle", <<"s">>))

\* sub occurs in s
contains(s, sub) ==
    \E i \in 1..(Len(s) - Len(sub) + 1) : SubSeq(s, i, i + Len(sub) - 1) = sub

\* the line is one the parser takes for an edge
isEdgeLine(line) ==
    /\ ~nodeMatch(line).ok
    /\ \/ edgeWithNodesMatch(line).ok
       \/ edgeWithLabelAndNodeMatch(line).ok
       \/ edgeWithLabelMatch(line).ok
       \/ dashedEdgeMatch(line).ok

\* the endpoints written on an edge line
edgeEnds(line) ==
    IF edgeWithNodesMatch(line).ok
    THEN <<edgeWithNodesMatch(line).fromId, edgeWithNodesMatch(line).toId>>
    ELSE IF edgeWithLabelAndNodeMatch(line).ok
    THEN <<edgeWithLabelAndNodeMatch(line).from, edgeWithLabelAndNodeMatch(line).toId>>
    ELSE IF edgeWithLabelMatch(line).ok
    THEN <<edgeWithLabelMatch(line).from, edgeWithLabelMatch(line).to>>
    ELSE <<dashedEdgeMatch(line).from, dashedEdgeMatch(line).to>>

\* the numbers of the edge lines of the input, in source order
edgeLineNumbers ==
    LET lines == inputLines
    IN  SelectSeq([k \in DOMAIN lines |-> k], LAMBDA k : isEdgeLine(lines[k]))

DashedBA == <<"B", " ", "-", ".", "-", ">", " ", "A">>

DefaultNode(id) == [id |-> id, label |-> id, shape |-> "rectangle"]

HasNode(node) ==
    \E i \in DOMAIN parseResult.graph.nodes : parseResult.graph.nodes[i] = node

\* C11: a line X -.-> Y adds one edge of type dashed from X to Y and makes X
\* and Y nodes, each a default rectangle labelled with its id when no earlier
\* line named the id (stated for B -.-> A on the last line); every edge that
\* comes from a --> line has type arrow.
C11_DashedAndArrowTypes ==
    /\ parsed /\ LastLineIs(mermaidCode, DashedBA) =>
           LET es == parseResult.graph.edges
               ns == parseResult.graph.nodes
           IN  /\ gotGraph
               /\ Len(es) = Len(edgeLineNumbers)
               /\ Len(es) >= 1
               /\ es[Len(es)] = [id |-> <<"B", "-", "A">>, from |-> <<"B">>,
                                 to |-> <<"A">>, type |-> "dashed"]
               /\ \E i \in DOMAIN ns : ns[i].id = <<"A">>
               /\ \E i \in DOMAIN ns : ns[i].id = <<"B">>
               /\ \A id \in {<<"A">>, <<"B">>} :
                      appearsOn(id) = {Len(inputLines)} => HasNode(DefaultNode(id))
    /\ gotGraph =>
           LET lines == inputLines
               numbers == edgeLineNumbers
           IN  \A i \in DOMAIN parseResult.graph.edges \cap DOMAIN numbers :
                   contains(lines[numbers[i]], ARROW)
                       => parseResult.graph.edges[i].type = "arrow"

\* A[x], then B -.-> A: A keeps its declaration, B is a default rectangle, and
\* the one edge is dashed
C11_Witness ==
    /\ gotGraph
    /\ LastLineIs(mermaidCode, DashedBA)
    /\ parseResult.graph.nodes =
           <<[id |-> <<"A">>, label |-> <<"x">>, shape |-> "rectangle"], DefaultNode(<<"B">>)>>
    /\ Len(parseResult.graph.edges) = 1
    /\ parseResult.graph.edges[1].type = "dashed"

\* the parser passes over the line: it is a comment, or it matches none of the
\* five patterns
isIgnoredLine(line) ==
    \/ startsWith(trim(line), <<"%", "%">>)
    \/ /\ trim(line) # <<>>
       /\ ~nodeMatch(trim(line)).ok
       /\ ~isEdgeLine(trim(line))

\* the lines without the k-th
withoutLine(lines, k) == SubSeq(lines, 1, k - 1) \o SubSeq(lines, k + 1, Len(lines))

\* C12: lines that match none of the five patterns, and lines starting with
\* %%, contribute nothing: the text with such a line and the text without it
\* parse to the same graph, and neither raises an error (stated for texts that
\* are not blank, a blank text being answered by the empty-input error).
C12_IgnoredLinesContributeNothing ==
    parsed /\ ~Blank(mermaidCode) =>
        \A k \in DOMAIN split(mermaidCode) :
            LET shorter == join(withoutLine(split(mermaidCode), k))
            IN  isIgnoredLine(split(mermaidCode)[k]) /\ ~Blank(shorter) =>
                    /\ Has(parseResult, "graph")
                    /\ Has(parse(shorter), "graph")
                    /\ parse(shorter).graph = parseResult.graph

\* C13: every recognized edge line appends exactly one edge whose id is
\* <from>-<to>; the edges are in source-line order, and k edge lines for a pair
\* of nodes yield k edges with equal ids, none merged or dropped.
C13_OneEdgePerEdgeLine ==
    gotGraph =>
        LET es == parseResult.graph.edges
            lines == inputLines
            numbers == edgeLineNumbers
        IN  /\ Len(es) = Len(numbers)
            /\ \A i \in DOMAIN es :
                   LET ends == edgeEnds(lines[numbers[i]])
                   IN  /\ es[i].from = ends[1]
                       /\ es[i].to = ends[2]
                       /\ es[i].id = ends[1] \o <<"-">> \o ends[2]

\* three edge lines, the first and the third for the same pair: three edges,
\* the first and the third with the same id
C13_Witness ==
    /\ gotGraph
    /\ Len(parseResult.graph.edges) = 3
    /\ parseResult.graph.edges[1].id = parseResult.graph.edges[3].id
    /\ parseResult.graph.edges[2].id # parseResult.graph.edges[1].id

(***************************************************************************)
(* Properties of ELKLayoutEngine.layout, checked under SpecLayout and,     *)
(* where termination is claimed, under FairSpecLayout.                     *)
(***************************************************************************)
returned == lpc \in {"returned", "delivered"}

\* C3: every node pinned (isDragged) at a position before the call has that
\* same position in the resolved LayoutResult, on the engine-success path and
\* on the fallback path alike.
C3_PinnedKeepsPosition ==
    layoutPromise.state = "fulfilled" =>
        \A i \in DOMAIN graph.nodes :
            isPinned(graph.nodes[i]) /\ Has(graph.nodes[i], "position") =>
                \A j \in DOMAIN layoutPromise.value.graph.nodes :
                    layoutPromise.value.graph.nodes[j].id = graph.nodes[i].id =>
                        layoutPromise.value.graph.nodes[j].position
                            = graph.nodes[i].position

\* a LayoutResult: a graph of a node list and an edge list, and bounds
IsLayoutResult(v) ==
    /\ DOMAIN v = {"graph", "bounds"}
    /\ DOMAIN v.graph = {"nodes", "edges"}
    /\ DOMAIN v.graph.nodes = 1..Len(v.graph.nodes)
    /\ DOMAIN v.graph.edges = 1..Len(v.graph.edges)
    /\ DOMAIN v.bounds = {"width", "height"}
    /\ v.bounds.width \in Nat /\ v.bounds.height \in Nat

\* C4: whatever the engine call does (it resolves, rejects, throws or resolves
\* to a malformed value), the promise returned by layout is never rejected:
\* once layout has returned, it is fulfilled with a LayoutResult.
C4_LayoutNeverRejects ==
    /\ layoutPromise.state # "rejected"
    /\ returned => layoutPromise.state = "fulfilled" /\ IsLayoutResult(layoutPromise.value)
    /\ \A i \in DOMAIN observed : observed[i].state = "fulfilled"

\* the engine resolved to null, and the caller was handed the fallback layout
C4_Witness ==
    /\ lpc = "delivered"
    /\ elkPromise = [state |-> "fulfilled", value |-> Null]
    /\ observed = <<[state |-> "fulfilled", value |-> fallbackLayout(graph)]>>

IsPrefix(p, q) == Len(p) <= Len(q) /\ SubSeq(q, 1, Len(p)) = p

SuccessPath == <<"Idle", "Converting", "Computing", "Reconciling", "Done">>
FallbackPath == <<"Idle", "Converting", "Computing", "Failed", "FallbackComputing", "Done">>
ReconcileFailedPath ==
    <<"Idle", "Converting", "Computing", "Reconciling", "Failed", "FallbackComputing", "Done">>

\* every node of the result has a position and a size
Complete(v) ==
    /\ IsLayoutResult(v)
    /\ \A i \in DOMAIN v.graph.nodes :
           Has(v.graph.nodes[i], "position") /\ Has(v.graph.nodes[i], "size")

\* what C5 says of every state of an invocation on a non-empty graph, for a
\* set of admitted state sequences
InvocationFollows(paths) ==
    Len(graph.nodes) > 0 =>
        /\ \E q \in paths : IsPrefix(phases, q)
        /\ returned => phases \in paths /\ layoutPromise.state = "fulfilled"
        /\ elkCalls <= 1
        /\ Len(observed) <= 1
        /\ \A i \in DOMAIN observed :
               /\ observed[i].state = "fulfilled"
               /\ Complete(observed[i].value)
               /\ phases[Len(phases)] = "Done"

\* C5 as claimed: an invocation on a non-empty graph follows one of the two
\* sequences Idle, Converting, Computing, Reconciling, Done and Idle,
\* Converting, Computing, Failed, FallbackComputing, Done; Done is entered
\* once, the engine is invoked at most once, and the caller observes only the
\* complete LayoutResult of Done.
C5_TwoSequences == InvocationFollows({SuccessPath, FallbackPath})

\* C5 as amended: a third sequence is admitted, in which the engine resolves,
\* the conversion of its value fails and the fallback runs; and, the engine
\* call settling, Done is eventually reached.
C5_ThreeSequences ==
    /\ []InvocationFollows({SuccessPath, FallbackPath, ReconcileFailedPath})
    /\ <>(phases[Len(phases)] = "Done")

\* an invocation that went through Reconciling and then Failed has delivered
\* its fallback result
C5_Witness ==
    /\ lpc = "delivered"
    /\ phases = ReconcileFailedPath
    /\ observed = <<[state |-> "fulfilled", value |-> fallbackLayout(graph)]>>
    /\ Len(graph.nodes) = 2

\* C14: layout called on a graph with zero nodes resolves to a LayoutResult
\* with empty node and edge lists and bounds 800 by 600, and the external
\* engine is never invoked.
C14_EmptyGraphShortCircuit ==
    Len(graph.nodes) = 0 =>
        /\ elkCalls = 0 /\ elkInput = <<>> /\ elkPromise = Pending
        /\ lpc # "awaiting"
        /\ returned =>
               layoutPromise =
                   [state |-> "fulfilled",
                    value |-> [graph |-> [nodes |-> <<>>, edges |-> <<>>],
                               bounds |-> [width |-> 800, height |-> 600]]]
        /\ \A i \in DOMAIN observed : observed[i] = layoutPromise

\* a graph without nodes, with an edge, has been laid out and delivered
C14_Witness ==
    /\ Len(graph.nodes) = 0
    /\ Len(graph.edges) = 1
    /\ lpc = "delivered"
    /\ Len(observed) = 1
    /\ observed[1].value.graph.edges = <<>>
    /\ observed[1].value.bounds = [width |-> 800, height |-> 600]

\* the engine call failed, or its value could not be converted
engineFailed == returned /\ \E i \in DOMAIN phases : phases[i] = "Failed"

\* C15: when the external engine fails on a graph of N >= 1 unpinned nodes,
\* the i-th node of the input order (i from 0) has position
\* x = (i mod 4) * 150 + 50, y = floor(i / 4) * 100 + 50 in the resolved result.
C15_FallbackGrid ==
    /\ engineFailed
    /\ Len(graph.nodes) >= 1
    /\ \A i \in DOMAIN graph.nodes : ~isPinned(graph.nodes[i])
    => /\ layoutPromise.state = "fulfilled"
       /\ Len(layoutPromise.value.graph.nodes) = Len(graph.nodes)
       /\ \A i \in DOMAIN graph.nodes :
              /\ layoutPromise.value.graph.nodes[i].id = graph.nodes[i].id
              /\ layoutPromise.value.graph.nodes[i].position =
                     [x |-> ((i - 1) % 4) * 150 + 50, y |-> ((i - 1) \div 4) * 100 + 50]

\* the engine rejected a graph of five unpinned nodes: the fourth node is at
\* the end of the first row, the fifth at the start of the second
C15_Witness ==
    /\ lpc = "delivered"
    /\ elkPromise.state = "rejected"
    /\ Len(graph.nodes) = 5
    /\ observed[1].value.graph.nodes[4].position = [x |-> 500, y |-> 50]
    /\ observed[1].value.graph.nodes[5].position = [x |-> 50, y |-> 150]

\* the engine call resolved to a value with one child for every submitted
\* node, and the value was converted
engineSucceeded ==
    /\ returned
    /\ phases = SuccessPath
    /\ Has(elkPromise.value, "children")
    /\ [i \in DOMAIN elkPromise.value.children |-> elkPromise.value.children[i].id]
           = [i \in DOMAIN graph.nodes |-> graph.nodes[i].id]

\* C16: when the engine succeeds and returns one child per submitted node,
\* every node of the resolved graph has the shape of the input node with the
\* same id, for each of the five shapes, and its pinned flag.
C16_ShapeAndPinPreserved ==
    engineSucceeded =>
        LET out == layoutPromise.value.graph.nodes
        IN  /\ Len(out) = Len(graph.nodes)
            /\ \A j \in DOMAIN out :
                   \E i \in DOMAIN graph.nodes :
                       /\ graph.nodes[i].id = out[j].id
                       /\ out[j].shape = graph.nodes[i].shape
                       /\ out[j].isDragged = isPinned(graph.nodes[i])

\* a stadium and a pinned diamond came back from an engine that returned its
\* children without their shapes
C16_Witness ==
    /\ engineSucceeded
    /\ lpc = "delivered"
    /\ Len(graph.nodes) = 2
    /\ graph.nodes[1].shape = "stadium" /\ graph.nodes[2].shape = "diamond"
    /\ ~Has(elkPromise.value.children[1], "shape")
    /\ observed[1].value.graph.nodes[1].shape = "stadium"
    /\ observed[1].value.graph.nodes[2].shape = "diamond"
    /\ observed[1].value.graph.nodes[2].isDragged

\* the value the engine resolved to holds the submitted edges, each with the
\* sections the engine added
edgesReturned ==
    /\ Has(elkPromise.value, "edges")
    /\ Len(elkPromise.value.edges) = Len(elkInput.edges)
    /\ \A i \in DOMAIN elkInput.edges :
           \A k \in DOMAIN elkInput.edges[i] :
               /\ Has(elkPromise.value.edges[i], k)
               /\ elkPromise.value.edges[i][k] = elkInput.edges[i][k]

\* C17: when the engine succeeds and returns the submitted edges, each edge of
\* the resolved graph has the id, from, to, label and type of the
\* corresponding input edge, with only points added.
C17_EdgeRoundTrip ==
    engineSucceeded /\ edgesReturned =>
        LET out == layoutPromise.value.graph.edges
        IN  /\ Len(out) = Len(graph.edges)
            /\ \A i \in DOMAIN graph.edges :
                   /\ DOMAIN out[i] \subseteq DOMAIN graph.edges[i] \cup {"points"}
                   /\ \A k \in DOMAIN graph.edges[i] :
                          Has(out[i], k) /\ out[i][k] = graph.edges[i][k]

(***************************************************************************)
(* Properties of the application, checked under SpecApp.                   *)
(***************************************************************************)
\* C19: after a drag has pinned node n at position p, the layout call that
\* follows a parse which declares id n again is given n pinned at p: every
\* node pinned in the displayed graph when the parse effect calls layout is,
\* when the parsed graph has its id, pinned at the same position in the
\* graph handed to layout.
C19_PinSurvivesReparse ==
    lastCall.by = "parse" =>
        \A i \in DOMAIN lastCall.shown.nodes :
            LET n == lastCall.shown.nodes[i]
            IN  isPinned(n) /\ Has(n, "position") =>
                    \A j \in DOMAIN lastCall.input.nodes :
                        lastCall.input.nodes[j].id = n.id =>
                            /\ isPinned(lastCall.input.nodes[j])
                            /\ Has(lastCall.input.nodes[j], "position")
                            /\ lastCall.input.nodes[j].position = n.position

\* C20: each completion of a layout request overwrites the displayed graph
\* and bounds with its own LayoutResult: while no drag has followed, they are
\* those of the request whose callback ran last, whichever request was made
\* first.
C20_LastCompletionWins ==
    lastWrite.by = "layout" =>
        /\ resolved # <<>>
        /\ layoutedGraph = lastWrite.value.graph
        /\ layoutBounds = lastWrite.value.bounds

\* two requests were in flight at once and the second resolved first: the
\* display shows the result of the first request, made for a text that has
\* been replaced since
C20_Witness ==
    /\ resolved = <<2, 1>>
    /\ inflight = {}
    /\ lastWrite.by = "layout"
    /\ layoutedGraph = lastWrite.value.graph
    /\ Len(layoutedGraph.nodes) = 1
    /\ Len(parseResult.graph.nodes) = 2

\* C21: whenever the current parse result is an error, the application shows
\* the error message and renders no graph: in every state with
\* parseResult.error set and no layout in flight, the displayed graph has no
\* nodes.
C21_ErrorRendersNoGraph ==
    Has(parseResult, "error") /\ inflight = {} =>
        /\ shownError # <<>>
        /\ ~rendersGraph
        /\ Len(layoutedGraph.nodes) = 0

\* the engine schema has been built from the graph under layout
converted == elkCalls > 0 /\ Len(graph.nodes) > 0

\* the node has the pinned flag and a position
pinnedAt(node) == isPinned(node) /\ Has(node, "position")

\* C22 as stated: in the engine schema built by convertToELKGraph, a node
\* carries x, y and the fixed-position directive exactly when it is pinned and
\* has a position, the coordinates being its current position; every unpinned
\* node carries neither coordinates nor the directive.
C22_FixedExactlyWhenPinnedAt ==
    converted =>
        /\ Len(elkInput.children) = Len(graph.nodes)
        /\ \A i \in DOMAIN graph.nodes :
               LET node == graph.nodes[i]
                   child == elkInput.children[i]
               IN  /\ Has(child, "x") <=> pinnedAt(node)
                   /\ Has(child, "y") <=> pinnedAt(node)
                   /\ Has(child, "layoutOptions") <=> pinnedAt(node)
                   /\ pinnedAt(node) =>
                          /\ child.x = node.position.x
                          /\ child.y = node.position.y
                          /\ child.layoutOptions = FixedPosition

\* C22 amended: a node carries x and y exactly when it is pinned and has a
\* position, the coordinates being its current position, and it carries the
\* fixed-position directive exactly when it is pinned, with or without a
\* position; every unpinned node carries neither coordinates nor the directive.
C22_CoordinatesWhenPinnedAt ==
    converted =>
        /\ Len(elkInput.children) = Len(graph.nodes)
        /\ \A i \in DOMAIN graph.nodes :
               LET node == graph.nodes[i]
                   child == elkInput.children[i]
               IN  /\ Has(child, "x") <=> pinnedAt(node)
                   /\ Has(child, "y") <=> pinnedAt(node)
                   /\ Has(child, "layoutOptions") <=> isPinned(node)
                   /\ pinnedAt(node) =>
                          /\ child.x = node.position.x
                          /\ child.y = node.position.y
                   /\ isPinned(node) => child.layoutOptions = FixedPosition

\* the schema of a pinned diamond at (7,0), a pinned node without a position
\* and an unpinned circle that has a position
C22_Witness ==
    /\ converted
    /\ Len(graph.nodes) = 3
    /\ graph.nodes[1].shape = "diamond" /\ elkInput.children[1].x = 7
    /\ elkInput.children[1].y = 0
    /\ elkInput.children[1].layoutOptions = FixedPosition
    /\ graph.nodes[2].shape = "rounded"
    /\ Has(elkInput.children[2], "layoutOptions")
    /\ ~Has(elkInput.children[2], "x")
    /\ graph.nodes[3].shape = "circle" /\ Has(graph.nodes[3], "position")
    /\ ~Has(elkInput.children[3], "x")
    /\ ~Has(elkInput.children[3], "layoutOptions")

\* the box of the node, centred on its position as the renderer draws it (cx =
\* position.x, cy = position.y), lies inside a drawing of the given bounds;
\* coordinates doubled to stay in the integers
boxInside(node, bounds) ==
    /\ 2 * node.position.x - node.size.width >= 0
    /\ 2 * node.position.y - node.size.height >= 0
    /\ 2 * node.position.x + node.size.width <= 2 * bounds.width
    /\ 2 * node.position.y + node.size.height <= 2 * bounds.height

\* C23: on the fallback path every node of the result has size 120 by 60
\* whatever its shape or previous size, the bounds are width 4*150+100 and
\* height ceil(N/4)*100+100 for N nodes, and every node's box, centred on its
\* position, lies inside the bounds.
C23_FallbackBoxesInsideBounds ==
    engineFailed /\ Len(graph.nodes) >= 1 =>
        LET result == layoutPromise.value
            N == Len(graph.nodes)
        IN  /\ layoutPromise.state = "fulfilled"
            /\ Len(result.graph.nodes) = N
            /\ result.bounds = [width |-> 4 * 150 + 100,
                                height |-> ((N + 3) \div 4) * 100 + 100]
            /\ \A i \in DOMAIN result.graph.nodes :
                   /\ result.graph.nodes[i].size = [width |-> 120, height |-> 60]
                   /\ boxInside(result.graph.nodes[i], result.bounds)

\* the number of the first of the five patterns, in the order of the loop
\* body, that matches the line; 0 when none does
firstPattern(line) ==
    IF nodeMatch(line).ok THEN 1
    ELSE IF edgeWithNodesMatch(line).ok THEN 2
    ELSE IF edgeWithLabelAndNodeMatch(line).ok THEN 3
    ELSE IF edgeWithLabelMatch(line).ok THEN 4
    ELSE IF dashedEdgeMatch(line).ok THEN 5
    ELSE 0

\* the endpoints captured by pattern p (2..5) on the line
patternEnds(p, line) ==
    CASE p = 2 -> <<edgeWithNodesMatch(line).fromId, edgeWithNodesMatch(line).toId>>
      [] p = 3 -> <<edgeWithLabelAndNodeMatch(line).from,
                    edgeWithLabelAndNodeMatch(line).toId>>
      [] p = 4 -> <<edgeWithLabelMatch(line).from, edgeWithLabelMatch(line).to>>
      [] p = 5 -> <<dashedEdgeMatch(line).from, dashedEdgeMatch(line).to>>

\* the nodes and edges after the first k lines
afterLines(lines, k) ==
    processLines([nodes |-> <<>>, edges |-> <<>>], SubSeq(lines, 1, k))

\* C24: for every line the five patterns are tried in the order bare node,
\* edge with both bracket forms, labelled edge to a bracketed target, plain
\* edge, dashed edge, and only the first that matches is applied: a line adds
\* at most one edge, the edge of its first matching pattern; a line taken as a
\* bare node declaration adds no edge, and a line no pattern matches changes
\* nothing.
C24_FirstMatchOnly ==
    gotGraph =>
        LET lines == inputLines
            acc == [k \in 0..Len(lines) |-> afterLines(lines, k)]
        IN  /\ parseResult.graph = acc[Len(lines)]
            /\ \A k \in DOMAIN lines :
                   LET line == lines[k]
                       first == firstPattern(line)
                       before == acc[k - 1]
                       after == acc[k]
                       n == Len(before.edges)
                   IN  /\ Len(after.edges) <= n + 1
                       /\ SubSeq(after.edges, 1, n) = before.edges
                       /\ first = 0 => after = before
                       /\ first = 1 =>
                              /\ after.edges = before.edges
                              /\ mapHas(after.nodes, nodeMatch(line).id)
                       /\ first \in 2..5 =>
                              /\ Len(after.edges) = n + 1
                              /\ after.edges[n + 1].from = patternEnds(first, line)[1]
                              /\ after.edges[n + 1].to = patternEnds(first, line)[2]
                              /\ after.edges[n + 1].type =
                                     IF first = 5 THEN "dashed" ELSE "arrow"

\* a bare declaration, an edge with both bracket forms and a dashed edge: two
\* nodes and two edges, the first an arrow and the second dashed
C24_Witness ==
    /\ gotGraph
    /\ mermaidCode = join(<<
           <<"A", "[", "x", "]">>,
           <<"A", "[", "x", "]">> \o SP \o ARROW \o SP
               \o <<"B", "{", "d", "}", "|", "l", "|">>,
           <<"B">> \o SP \o DASHED \o SP \o <<"A">> >>)
    /\ Len(parseResult.graph.nodes) = 2
    /\ Len(parseResult.graph.edges) = 2
    /\ parseResult.graph.edges[1].type = "arrow"
    /\ parseResult.graph.edges[2].type = "dashed"

\* the node recorded for the id
nodeOf(nodes, id) == nodes[CHOOSE i \in DOMAIN nodes : nodes[i].id = id]

\* the target of a plain or dashed edge line is written without a bracket form
plainTarget(line, arrow) ==
    LET e1 == reWord(line, 1)
        e2 == reSpaces(line, reLit(line, reSpaces(line, e1), arrow))
    IN  formEnd(line, reWord(line, e2)) = 0

\* the ids written without a bracket form as an endpoint of the edge line
\* whose first matching pattern is p
plainEndpoints(p, line) ==
    CASE p = 3 -> {edgeWithLabelAndNodeMatch(line).from}
      [] p = 4 -> {edgeWithLabelMatch(line).from}
                  \cup (IF plainTarget(line, ARROW)
                        THEN {edgeWithLabelMatch(line).to} ELSE {})
      [] p = 5 -> {dashedEdgeMatch(line).from}
                  \cup (IF plainTarget(line, DASHED)
                        THEN {dashedEdgeMatch(line).to} ELSE {})
      [] OTHER -> {}

\* the ids the same line writes with a bracket form as an endpoint
bracketEndpoints(p, line) ==
    CASE p = 2 -> {edgeWithNodesMatch(line).fromId, edgeWithNodesMatch(line).toId}
      [] p = 3 -> {edgeWithLabelAndNodeMatch(line).toId}
      [] OTHER -> {}

\* the line leaves the node of a known id as recorded and makes an unknown id
\* a default node
keepsOrCreates(before, after, id) ==
    /\ mapHas(after.nodes, id)
    /\ IF mapHas(before.nodes, id)
       THEN nodeOf(after.nodes, id) = nodeOf(before.nodes, id)
       ELSE nodeOf(after.nodes, id) = DefaultNode(id)

\* C25 as stated: an id that appears as a plain endpoint of an edge line
\* creates a default node (shape rectangle, label equal to the id) only when the
\* id is not yet known; when the id is already known, its recorded label and
\* shape are left unchanged by that line.
C25_PlainEndpointKeepsNode ==
    gotGraph =>
        LET lines == inputLines
            acc == [k \in 0..Len(lines) |-> afterLines(lines, k)]
        IN  \A k \in DOMAIN lines :
                \A id \in plainEndpoints(firstPattern(lines[k]), lines[k]) :
                    keepsOrCreates(acc[k - 1], acc[k], id)

\* C25 amended: the same, for an id that the line does not also write with a
\* bracket form; on a line X -->|l| X[..] the plain endpoint X takes the label
\* and the shape of the bracket form, known or not.
C25_PlainOnlyEndpointKeepsNode ==
    gotGraph =>
        LET lines == inputLines
            acc == [k \in 0..Len(lines) |-> afterLines(lines, k)]
        IN  \A k \in DOMAIN lines :
                LET first == firstPattern(lines[k])
                    plain == plainEndpoints(first, lines[k])
                    bracket == bracketEndpoints(first, lines[k])
                IN  /\ \A id \in plain \ bracket :
                           keepsOrCreates(acc[k - 1], acc[k], id)
                    /\ \A id \in plain \cap bracket :
                           nodeOf(acc[k].nodes, id) =
                               parseNodeDefinition(
                                   id, edgeWithLabelAndNodeMatch(lines[k]).toNodeDef)

\* A[x], then A --> B, then A -->|l| A[z]: the second line keeps A's label x
\* and makes B a default node, the third gives A the label z
C25_Witness ==
    /\ gotGraph
    /\ mermaidCode = join(<<
           <<"A", "[", "x", "]">>,
           <<"A">> \o SP \o ARROW \o SP \o <<"B">>,
           <<"A">> \o SP \o ARROW \o <<"|", "l", "|">> \o SP \o <<"A", "[", "z", "]">> >>)
    /\ afterLines(inputLines, 2).nodes =
           <<[id |-> <<"A">>, label |-> <<"x">>, shape |-> "rectangle"],
             DefaultNode(<<"B">>)>>
    /\ parseResult.graph.nodes =
           <<[id |-> <<"A">>, label |-> <<"z">>, shape |-> "rectangle"],
             DefaultNode(<<"B">>)>>

\* the node a bracket form stands for
formNode(id, form) == [id |-> id, label |-> formLabel(form), shape |-> formShape(form)]

\* the line ends with |text|
hasTrailingLabel(line) ==
    /\ Len(line) >= 3
    /\ line[Len(line)] = "|"
    /\ \E i \in 1..(Len(line) - 2) : line[i] = "|"

\* the text between the bars of the trailing |text|
trailingLabel(line) ==
    LET bar == CHOOSE i \in 1..(Len(line) - 2) :
                   /\ line[i] = "|"
                   /\ \A j \in (i + 1)..(Len(line) - 1) : line[j] # "|"
    IN  SubSeq(line, bar + 1, Len(line) - 1)

\* C26: a line X[..] --> Y[..] with both bracket forms sets node X, then node
\* Y, from their bracket forms, known or not, and appends one arrow edge from
\* X to Y whose label is the trimmed text of a trailing |label| when there is
\* one and is absent otherwise.
C26_EdgeWithBothForms ==
    gotGraph =>
        LET lines == inputLines
            acc == [k \in 0..Len(lines) |-> afterLines(lines, k)]
        IN  \A k \in DOMAIN lines :
                firstPattern(lines[k]) = 2 =>
                    LET line == lines[k]
                        m == edgeWithNodesMatch(line)
                        before == acc[k - 1]
                        after == acc[k]
                        edge == after.edges[Len(after.edges)]
                    IN  /\ after.nodes =
                               mapSet(mapSet(before.nodes, m.fromId,
                                             formNode(m.fromId, m.fromNodeDef)),
                                      m.toId, formNode(m.toId, m.toNodeDef))
                        /\ nodeOf(after.nodes, m.toId) = formNode(m.toId, m.toNodeDef)
                        /\ after.edges = Append(before.edges, edge)
                        /\ edge.id = m.fromId \o <<"-">> \o m.toId
                        /\ edge.from = m.fromId /\ edge.to = m.toId
                        /\ edge.type = "arrow"
                        /\ IF hasTrailingLabel(line)
                           THEN Has(edge, "label")
                                /\ edge.label = trim(trailingLabel(line))
                           ELSE ~Has(edge, "label")

\* B{d}, then A[x] --> B{d}| l |, then B((c)) --> A[ y ]: B becomes a circle
\* labelled c and A takes the label y; the first edge has the label l, the
\* second has none
C26_Witness ==
    /\ gotGraph
    /\ mermaidCode = join(<<
           <<"B", "{", "d", "}">>,
           <<"A", "[", "x", "]">> \o SP \o ARROW \o SP
               \o <<"B", "{", "d", "}", "|", " ", "l", " ", "|">>,
           <<"B", "(", "(", "c", ")", ")">> \o SP \o ARROW \o SP
               \o <<"A", "[", " ", "y", " ", "]">> >>)
    /\ parseResult.graph.nodes =
           <<[id |-> <<"B">>, label |-> <<"c">>, shape |-> "circle"],
             [id |-> <<"A">>, label |-> <<"y">>, shape |-> "rectangle"]>>
    /\ parseResult.graph.edges =
           <<[id |-> <<"A", "-", "B">>, from |-> <<"A">>, to |-> <<"B">>,
              label |-> <<"l">>, type |-> "arrow"],
             [id |-> <<"B", "-", "A">>, from |-> <<"B">>, to |-> <<"A">>,
              type |-> "arrow"]>>

(***************************************************************************)
(* Properties of the application's handlers, checked under SpecApp.        *)
(***************************************************************************)
\* the displayed graph `after` is `before` with the node `id` moved to
\* `position` and pinned, and nothing else changed
draggedTo(before, after, id, position) ==
    /\ DOMAIN after = DOMAIN before
    /\ after.edges = before.edges
    /\ Len(after.nodes) = Len(before.nodes)
    /\ \A i \in DOMAIN before.nodes :
           IF before.nodes[i].id = id
           THEN /\ after.nodes[i].position = position
                /\ after.nodes[i].isDragged = TRUE
                /\ DOMAIN after.nodes[i] = DOMAIN before.nodes[i] \cup {"position", "isDragged"}
                /\ \A k \in DOMAIN before.nodes[i] \ {"position", "isDragged"} :
                       after.nodes[i][k] = before.nodes[i][k]
           ELSE after.nodes[i] = before.nodes[i]
    /\ (\A i \in DOMAIN before.nodes : before.nodes[i].id # id) => after = before

\* C27: a drag event (nodeId, newPosition) sets the position of the displayed
\* node with that id to newPosition and its pinned flag to true, and leaves
\* every other node, the node order and all edges unchanged; an event for an id
\* that is not in the displayed graph changes nothing.
C27_DragMovesOneNode ==
    [][\A id \in DragIds, position \in DragPositions :
           NodeDrag(id, position) =>
               /\ draggedTo(layoutedGraph, layoutedGraph', id, position)
               /\ UNCHANGED <<layoutBounds, parseResult, mermaidCode, debouncedCode,
                              inflight>>]_vars

\* after a drag of A in the displayed layout of A --> B: A is pinned at (7,0),
\* B is where the engine put it and the edge is still there
C27_Witness ==
    /\ lastWrite = [by |-> "drag"]
    /\ Len(layoutedGraph.nodes) = 2
    /\ layoutedGraph.nodes[1].id = <<"A">>
    /\ layoutedGraph.nodes[1].position = [x |-> 7, y |-> 0]
    /\ isPinned(layoutedGraph.nodes[1])
    /\ layoutedGraph.nodes[2].id = <<"B">>
    /\ ~isPinned(layoutedGraph.nodes[2])
    /\ layoutedGraph.nodes[2].position # [x |-> 7, y |-> 0]
    /\ Len(layoutedGraph.edges) = 1

\* the text has been parsed: no update is pending, the debounced text is the
\* editor's and the parse result is that of the editor's text
parsedLatest ==
    /\ timer = <<>>
    /\ ppc = "parsed"
    /\ debouncedCode = mermaidCode
    /\ parseResult = parse(mermaidCode)

\* C28: text changes are coalesced before parsing.  The one pending update is
\* always for the latest text (a change cancels the update pending for the
\* previous one); the debounced text changes only when the delay of the latest
\* text expires; the parser runs only on the debounced text; and once changes
\* stop the parsed text eventually equals the latest editor text, for good.
C28_ChangesCoalesced ==
    /\ [](timer # <<>> => timer = <<mermaidCode>>)
    /\ [][debouncedCode' # debouncedCode =>
              /\ timer = <<mermaidCode>>
              /\ debouncedCode' = mermaidCode
              /\ timer' = <<>>
              /\ mermaidCode' = mermaidCode]_vars
    /\ [][parseResult' # parseResult => parseResult' = parse(debouncedCode)]_vars
    /\ <>[]parsedLatest

\* the empty text was changed to A[x] and then to A --> B, and the parser has
\* made its one layout request, for A --> B
C28_Witness ==
    /\ parsedLatest
    /\ events = 2
    /\ mermaidCode = <<"A">> \o SP \o ARROW \o SP \o <<"B">>
    /\ requests = 1
    /\ lastCall.by = "parse"
    /\ lastWrite.by = "init"
    /\ Len(lastCall.input.nodes) = 2

\* the set of the node ids of a graph
nodeIds(g) == {g.nodes[i].id : i \in DOMAIN g.nodes}

\* C29: once text changes have stopped and every layout in flight has
\* resolved, the displayed graph is the layout of the most recently parsed
\* text: when the latest text has been parsed to a graph and no layout is in
\* flight, the set of node ids of the displayed graph is that of the parsed
\* graph, whatever the order in which the layout promises resolved.
C29_DisplayedIsLatestParse ==
    parsedLatest /\ inflight = {} /\ Has(parseResult, "graph") =>
        nodeIds(layoutedGraph) = nodeIds(parseResult.graph)

\* C30: the fallback layout changes only position and size: every node of its
\* result keeps the id, label, shape, style and pinned flag of the input node
\* at the same index, the node order is the input order, and the edge list is
\* returned as given (same edges, same order, type and label kept).
C30_FallbackKeepsTheRest ==
    engineFailed =>
        LET out == layoutPromise.value.graph
        IN  /\ layoutPromise.state = "fulfilled"
            /\ out.edges = graph.edges
            /\ Len(out.nodes) = Len(graph.nodes)
            /\ \A i \in DOMAIN graph.nodes :
                   /\ DOMAIN out.nodes[i] = DOMAIN graph.nodes[i] \cup {"position", "size"}
                   /\ \A k \in DOMAIN graph.nodes[i] \ {"position", "size"} :
                          out.nodes[i][k] = graph.nodes[i][k]
                   /\ isPinned(out.nodes[i]) = isPinned(graph.nodes[i])

\* the engine failed on a styled stadium, a pinned diamond and a circle,
\* joined by a dashed labelled edge: the fallback result has the style, the
\* pin and the edge
C30_Witness ==
    /\ engineFailed
    /\ lpc = "delivered"
    /\ Len(graph.nodes) = 3
    /\ graph.nodes[1].shape = "stadium"
    /\ graph.nodes[2].shape = "diamond"
    /\ graph.nodes[3].shape = "circle"
    /\ observed[1].value.graph.nodes[1].style = [fill |-> "#fde68a"]
    /\ observed[1].value.graph.nodes[2].isDragged
    /\ observed[1].value.graph.nodes[2].position = [x |-> 200, y |-> 50]
    /\ observed[1].value.graph.nodes[3].shape = "circle"
    /\ Len(observed[1].value.graph.edges) = 1
    /\ observed[1].value.graph.edges[1].type = "dashed"
    /\ observed[1].value.graph.edges[1].label = <<"l">>

====
